---------------------------- MODULE Spec2Model ----------------------------
(***************************************************************************)
(* The long-running job manager of src/src/long_running.py                 *)
(* (LongRunningJobManager): an in-memory table of job records, guarded by  *)
(* one lock and rewritten in full to a JSON file after every mutation.     *)
(*                                                                         *)
(* Every public method runs its whole body under `with self._lock`, the    *)
(* lock is not re-entrant and no method calls another public method, so    *)
(* each method is one atomic action here.  The clock read by               *)
(* datetime.now() advances by the separate action Tick.                    *)
(***************************************************************************)
EXTENDS Integers, Sequences, FiniteSets, TLC

VARIABLES
    jobs,           \* self.jobs: job_id -> job record (a function on the ids present)
    jobs_file,      \* the content of self.jobs_file on disk
    clock,          \* the value datetime.now() returns
    save_failures,  \* how many saves have failed so far (bounded by MaxSaveFailures)
    last,           \* the most recent call: [op, id, args, ret]
    _lock,          \* self._lock: the thread holding it, or None
    threads,        \* each thread's call in flight: its place in the method and its locals
    limiter,        \* a RateLimiter: last_request_time, _request_count and its own _lock
    DEFAULT_STRUCTURE, \* LongTermMemory.DEFAULT_STRUCTURE: the class's dictionary and the objects in it
    data,           \* self.data of each LongTermMemory instance of the process
    memory_file,    \* the content of LongTermMemory's file_path on disk
    store           \* SessionMemory.store: sid -> session dictionary

\* the objects of the utilities and of the two memories
others == <<limiter, DEFAULT_STRUCTURE, data, memory_file, store>>

vars == <<jobs, jobs_file, clock, save_failures, last, _lock, threads, others>>

(***************************************************************************)
(* Bounds of the model.                                                    *)
(***************************************************************************)
MaxClock == 1
MaxSaveFailures == 1

(***************************************************************************)
(* Values.                                                                 *)
(***************************************************************************)
\* Python's None, where a string is expected
None == "None"
\* Python's empty dict, as the stored config
EmptyDict == "{}"

\* the values str(uuid.uuid4())[:8] is drawn from
JobIds == {"a1b2c3d4"}

\* class JobStatus(Enum)
QUEUED == "queued"
RUNNING == "running"
PAUSED == "paused"
COMPLETED == "completed"
FAILED == "failed"
CANCELLED == "cancelled"
JobStatus == {QUEUED, RUNNING, PAUSED, COMPLETED, FAILED, CANCELLED}

AUTO_SAVE == TRUE

\* LongRunningJobManager.VALID_TRANSITIONS
VALID_TRANSITIONS ==
    [s \in JobStatus |->
        CASE s = QUEUED    -> {RUNNING, CANCELLED}
          [] s = RUNNING   -> {PAUSED, COMPLETED, FAILED, CANCELLED}
          [] s = PAUSED    -> {RUNNING, CANCELLED}
          [] s = COMPLETED -> {}
          [] s = FAILED    -> {}
          [] s = CANCELLED -> {}]

\* inputs the callers pass
\* (query, config) of start_deep_research: with and without a config
StartInputs == { <<"X", None>>, <<"Y", "{parallel}">> }
ProgressInputs == {-5, 40, 150}
StepInputs == {None, "research"}
ResultInputs == {"{summary}"}
ErrorInputs == {"timeout"}

(***************************************************************************)
(* Helpers.                                                                *)
(***************************************************************************)
\* Python truth value of the optional values used here
Falsy(v) == v \in {None, "", EmptyDict}

Max(a, b) == IF a >= b THEN a ELSE b
Min(a, b) == IF a <= b THEN a ELSE b

\* datetime.now().isoformat()
Now == clock

\* the file states
NO_FILE == [kind |-> "missing"]
CORRUPT == [kind |-> "corrupt"]
\* RateLimiter.__init__: the state of a new limiter
RateLimiter ==
    [last_request_time |-> 0, _request_count |-> 0, _lock |-> None, completed |-> 0]

\* the objects of utils and memory before any of them is used
InitOthers ==
    /\ limiter = RateLimiter
    /\ DEFAULT_STRUCTURE =
          [user_preferences |-> <<>>, frequent_queries |-> <<>>, query_history |-> <<>>]
    /\ data = <<>>
    /\ memory_file = NO_FILE
    /\ store = <<>>

\* a results dict holding a tuple, and that dict with the tuple as a list
TupleResults == "{pages: (1, 5)}"
ListResults == "{pages: [1, 5]}"

\* the JSON image of a value: strings, integers, None and dicts of them are
\* written as themselves, a tuple is written as a list
json_value(v) == IF v = TupleResults THEN ListResults ELSE v

\* json.dump(self.jobs, f, indent=2, ensure_ascii=False)
json_dump(table) ==
    [kind  |-> "table",
     table |-> [k \in DOMAIN table |->
                   [table[k] EXCEPT !.results = json_value(@),
                                    !.config = json_value(@)]]]

\* a file holding well-formed JSON that is not a job table
JSON_LIST == [kind |-> "json", value |-> "[]"]
JSON_NULL == [kind |-> "json", value |-> "null"]

\* self.jobs after json.load gave a list: no dict
NotADict == [not_a_dict |-> "[]"]
IsDict(table) == "not_a_dict" \notin DOMAIN table

\* _load_jobs: the value left in self.jobs
_load_jobs(file) ==
    IF file.kind = "missing"
    THEN <<>>
    ELSE IF file.kind = "corrupt"
         THEN <<>>
         ELSE IF file.kind = "table"
              THEN file.table
              ELSE IF file = JSON_LIST
                   THEN NotADict
                   ELSE <<>>

\* the call record
Call(op, id, args, ret) == [op |-> op, id |-> id, args |-> args, ret |-> ret]

\* a method returning without touching the table or the file
ReturnOnly(op, id, args, ret) ==
    /\ last' = Call(op, id, args, ret)
    /\ UNCHANGED <<others, jobs, jobs_file, clock, save_failures, _lock, threads>>

(***************************************************************************)
(* _validate_transition                                                    *)
(***************************************************************************)
\* as _validate_transition, also accepting a status as its own successor
_validate_transition_selfloop(current_status, new_status) ==
    \/ new_status \in VALID_TRANSITIONS[current_status]
    \/ new_status = current_status

_validate_transition(current_status, new_status) ==
    IF current_status \in DOMAIN VALID_TRANSITIONS
    THEN new_status \in VALID_TRANSITIONS[current_status]
    ELSE FALSE

(***************************************************************************)
(* _save_jobs: the whole table is rewritten.  open(..., 'w') or mkdir may  *)
(* raise before the file is touched, and a write may fail after the file   *)
(* was truncated; both are caught and only reported.                       *)
(***************************************************************************)
\* as _save_jobs, dumping the table as it was before the caller's mutation
_save_jobs_stale(table) ==
    IF ~AUTO_SAVE
    THEN UNCHANGED <<others, jobs_file, save_failures>>
    ELSE \/ /\ jobs_file' = json_dump(jobs)
            /\ UNCHANGED save_failures
         \/ /\ save_failures < MaxSaveFailures
            /\ save_failures' = save_failures + 1
            /\ jobs_file' \in {jobs_file, CORRUPT}

_save_jobs(table) ==
    IF ~AUTO_SAVE
    THEN UNCHANGED <<others, jobs_file, save_failures>>
    ELSE \/ /\ jobs_file' = json_dump(table)
            /\ UNCHANGED save_failures
         \/ /\ save_failures < MaxSaveFailures
            /\ save_failures' = save_failures + 1
            /\ jobs_file' \in {jobs_file, CORRUPT}

(***************************************************************************)
(* The public methods.                                                     *)
(***************************************************************************)
\* dict assignment self.jobs[job_id] = job
Store(table, job_id, job) ==
    [k \in DOMAIN table \cup {job_id} |-> IF k = job_id THEN job ELSE table[k]]

\* as start_deep_research, with `config or {}` written as `config`
start_deep_research_raw_config(job_id, query, config) ==
    LET now == Now
        job == [job_id       |-> job_id,
                query        |-> query,
                status       |-> QUEUED,
                created_at   |-> now,
                updated_at   |-> now,
                progress     |-> 0,
                current_step |-> None,
                results      |-> None,
                error        |-> None,
                config       |-> config]
    IN  /\ jobs' = Store(jobs, job_id, job)
        /\ _save_jobs(jobs')
        /\ last' = Call("start_deep_research", job_id, <<query, config>>, job_id)
        /\ UNCHANGED <<others, clock, _lock, threads>>

start_deep_research(job_id, query, config) ==
    LET now == Now
        job == [job_id       |-> job_id,
                query        |-> query,
                status       |-> QUEUED,
                created_at   |-> now,
                updated_at   |-> now,
                progress     |-> 0,
                current_step |-> None,
                results      |-> None,
                error        |-> None,
                config       |-> IF Falsy(config) THEN EmptyDict ELSE config]
    IN  /\ jobs' = Store(jobs, job_id, job)
        /\ _save_jobs(jobs')
        /\ last' = Call("start_deep_research", job_id, <<query, config>>, job_id)
        /\ UNCHANGED <<others, clock, _lock, threads>>

\* as update_progress, without the clamp of progress
update_progress_unclamped(job_id, progress, current_step) ==
    IF job_id \notin DOMAIN jobs
    THEN ReturnOnly("update_progress", job_id, <<progress, current_step>>, FALSE)
    ELSE /\ jobs' = [jobs EXCEPT
                ![job_id].progress = progress,
                ![job_id].updated_at = Now,
                ![job_id].current_step =
                    IF Falsy(current_step) THEN @ ELSE current_step]
         /\ _save_jobs(jobs')
         /\ last' = Call("update_progress", job_id, <<progress, current_step>>, TRUE)
         /\ UNCHANGED <<others, clock, _lock, threads>>

\* as update_progress, always writing current_step
update_progress_step_always(job_id, progress, current_step) ==
    IF job_id \notin DOMAIN jobs
    THEN ReturnOnly("update_progress", job_id, <<progress, current_step>>, FALSE)
    ELSE LET clamped == Max(0, Min(100, progress))
         IN  /\ jobs' = [jobs EXCEPT
                    ![job_id].progress = clamped,
                    ![job_id].updated_at = Now,
                    ![job_id].current_step = current_step]
             /\ _save_jobs(jobs')
             /\ last' = Call("update_progress", job_id, <<progress, current_step>>, TRUE)
             /\ UNCHANGED <<others, clock, _lock, threads>>

update_progress(job_id, progress, current_step) ==
    IF job_id \notin DOMAIN jobs
    THEN ReturnOnly("update_progress", job_id, <<progress, current_step>>, FALSE)
    ELSE LET clamped == Max(0, Min(100, progress))
         IN  /\ jobs' = [jobs EXCEPT
                    ![job_id].progress = clamped,
                    ![job_id].updated_at = Now,
                    ![job_id].current_step =
                        IF Falsy(current_step) THEN @ ELSE current_step]
             /\ _save_jobs(jobs')
             /\ last' = Call("update_progress", job_id, <<progress, current_step>>, TRUE)
             /\ UNCHANGED <<others, clock, _lock, threads>>

\* as resume_job, without the checks of the current status
resume_job_forced(job_id) ==
    IF job_id \notin DOMAIN jobs
    THEN ReturnOnly("resume_job", job_id, <<>>, FALSE)
    ELSE /\ jobs' = [jobs EXCEPT ![job_id].status = RUNNING,
                                ![job_id].updated_at = Now]
         /\ _save_jobs(jobs')
         /\ last' = Call("resume_job", job_id, <<>>, TRUE)
         /\ UNCHANGED <<others, clock, _lock, threads>>

resume_job(job_id) ==
    IF job_id \notin DOMAIN jobs
    THEN ReturnOnly("resume_job", job_id, <<>>, FALSE)
    ELSE LET current_status == jobs[job_id].status
         IN  IF current_status = RUNNING
             THEN ReturnOnly("resume_job", job_id, <<>>, FALSE)
             ELSE IF current_status \in {COMPLETED, FAILED, CANCELLED}
             THEN ReturnOnly("resume_job", job_id, <<>>, FALSE)
             ELSE IF ~_validate_transition(current_status, RUNNING)
             THEN ReturnOnly("resume_job", job_id, <<>>, FALSE)
             ELSE /\ jobs' = [jobs EXCEPT ![job_id].status = RUNNING,
                                         ![job_id].updated_at = Now]
                  /\ _save_jobs(jobs')
                  /\ last' = Call("resume_job", job_id, <<>>, TRUE)
                  /\ UNCHANGED <<others, clock, _lock, threads>>

\* as pause_job, refusing only the terminal statuses
pause_job_any_active(job_id) ==
    IF job_id \notin DOMAIN jobs
    THEN ReturnOnly("pause_job", job_id, <<>>, FALSE)
    ELSE LET current_status == jobs[job_id].status
         IN  IF current_status \in {COMPLETED, FAILED, CANCELLED}
             THEN ReturnOnly("pause_job", job_id, <<>>, FALSE)
             ELSE /\ jobs' = [jobs EXCEPT ![job_id].status = PAUSED,
                                         ![job_id].updated_at = Now]
                  /\ _save_jobs(jobs')
                  /\ last' = Call("pause_job", job_id, <<>>, TRUE)
                  /\ UNCHANGED <<others, clock, _lock, threads>>

pause_job(job_id) ==
    IF job_id \notin DOMAIN jobs
    THEN ReturnOnly("pause_job", job_id, <<>>, FALSE)
    ELSE LET current_status == jobs[job_id].status
         IN  IF current_status # RUNNING
             THEN ReturnOnly("pause_job", job_id, <<>>, FALSE)
             ELSE /\ jobs' = [jobs EXCEPT ![job_id].status = PAUSED,
                                         ![job_id].updated_at = Now]
                  /\ _save_jobs(jobs')
                  /\ last' = Call("pause_job", job_id, <<>>, TRUE)
                  /\ UNCHANGED <<others, clock, _lock, threads>>

\* as complete_job, undoing the mutation and answering False when the save fails
complete_job_rollback(job_id, results) ==
    IF job_id \notin DOMAIN jobs
    THEN ReturnOnly("complete_job", job_id, <<results>>, FALSE)
    ELSE \/ /\ jobs' = [jobs EXCEPT ![job_id].status = COMPLETED,
                                   ![job_id].progress = 100,
                                   ![job_id].results = results,
                                   ![job_id].updated_at = Now]
            /\ jobs_file' = json_dump(jobs')
            /\ last' = Call("complete_job", job_id, <<results>>, TRUE)
            /\ UNCHANGED <<others, clock, save_failures, _lock, threads>>
         \/ /\ save_failures < MaxSaveFailures
            /\ save_failures' = save_failures + 1
            /\ jobs_file' \in {jobs_file, CORRUPT}
            /\ jobs' = jobs
            /\ last' = Call("complete_job", job_id, <<results>>, FALSE)
            /\ UNCHANGED <<others, clock, _lock, threads>>

complete_job(job_id, results) ==
    IF job_id \notin DOMAIN jobs
    THEN ReturnOnly("complete_job", job_id, <<results>>, FALSE)
    ELSE /\ jobs' = [jobs EXCEPT ![job_id].status = COMPLETED,
                                ![job_id].progress = 100,
                                ![job_id].results = results,
                                ![job_id].updated_at = Now]
         /\ _save_jobs(jobs')
         /\ last' = Call("complete_job", job_id, <<results>>, TRUE)
         /\ UNCHANGED <<others, clock, _lock, threads>>

\* as fail_job, marking every record of the table
fail_job_everywhere(job_id, error) ==
    IF job_id \notin DOMAIN jobs
    THEN ReturnOnly("fail_job", job_id, <<error>>, FALSE)
    ELSE /\ jobs' = [k \in DOMAIN jobs |->
                        [jobs[k] EXCEPT !.status = FAILED,
                                        !.error = error,
                                        !.updated_at = Now]]
         /\ _save_jobs(jobs')
         /\ last' = Call("fail_job", job_id, <<error>>, TRUE)
         /\ UNCHANGED <<others, clock, _lock, threads>>

\* str(error) of a str is that str
fail_job(job_id, error) ==
    IF job_id \notin DOMAIN jobs
    THEN ReturnOnly("fail_job", job_id, <<error>>, FALSE)
    ELSE /\ jobs' = [jobs EXCEPT ![job_id].status = FAILED,
                                ![job_id].error = error,
                                ![job_id].updated_at = Now]
         /\ _save_jobs(jobs')
         /\ last' = Call("fail_job", job_id, <<error>>, TRUE)
         /\ UNCHANGED <<others, clock, _lock, threads>>

\* as cancel_job, without the write of updated_at
cancel_job_stale_timestamp(job_id) ==
    IF job_id \notin DOMAIN jobs
    THEN ReturnOnly("cancel_job", job_id, <<>>, FALSE)
    ELSE LET current_status == jobs[job_id].status
         IN  IF current_status \in {COMPLETED, FAILED, CANCELLED}
             THEN ReturnOnly("cancel_job", job_id, <<>>, FALSE)
             ELSE /\ jobs' = [jobs EXCEPT ![job_id].status = CANCELLED]
                  /\ _save_jobs(jobs')
                  /\ last' = Call("cancel_job", job_id, <<>>, TRUE)
                  /\ UNCHANGED <<others, clock, _lock, threads>>

\* as cancel_job, without the check for a terminal status
cancel_job_forced(job_id) ==
    IF job_id \notin DOMAIN jobs
    THEN ReturnOnly("cancel_job", job_id, <<>>, FALSE)
    ELSE /\ jobs' = [jobs EXCEPT ![job_id].status = CANCELLED,
                                ![job_id].updated_at = Now]
         /\ _save_jobs(jobs')
         /\ last' = Call("cancel_job", job_id, <<>>, TRUE)
         /\ UNCHANGED <<others, clock, _lock, threads>>

cancel_job(job_id) ==
    IF job_id \notin DOMAIN jobs
    THEN ReturnOnly("cancel_job", job_id, <<>>, FALSE)
    ELSE LET current_status == jobs[job_id].status
         IN  IF current_status \in {COMPLETED, FAILED, CANCELLED}
             THEN ReturnOnly("cancel_job", job_id, <<>>, FALSE)
             ELSE /\ jobs' = [jobs EXCEPT ![job_id].status = CANCELLED,
                                         ![job_id].updated_at = Now]
                  /\ _save_jobs(jobs')
                  /\ last' = Call("cancel_job", job_id, <<>>, TRUE)
                  /\ UNCHANGED <<others, clock, _lock, threads>>

\* del self.jobs[job_id]
Remove(table, job_id) == [k \in DOMAIN table \ {job_id} |-> table[k]]

\* as delete_job, refusing a job that is not in a terminal status
delete_job_keeps_active(job_id) ==
    IF job_id \in DOMAIN jobs /\ jobs[job_id].status \in {COMPLETED, FAILED, CANCELLED}
    THEN /\ jobs' = Remove(jobs, job_id)
         /\ _save_jobs(jobs')
         /\ last' = Call("delete_job", job_id, <<>>, TRUE)
         /\ UNCHANGED <<others, clock, _lock, threads>>
    ELSE ReturnOnly("delete_job", job_id, <<>>, FALSE)

\* as delete_job, saving on the not-found path as well
delete_job_always_saves(job_id) ==
    IF job_id \in DOMAIN jobs
    THEN /\ jobs' = Remove(jobs, job_id)
         /\ _save_jobs(jobs')
         /\ last' = Call("delete_job", job_id, <<>>, TRUE)
         /\ UNCHANGED <<others, clock, _lock, threads>>
    ELSE /\ jobs' = jobs
         /\ _save_jobs(jobs')
         /\ last' = Call("delete_job", job_id, <<>>, FALSE)
         /\ UNCHANGED <<others, clock, _lock, threads>>

delete_job(job_id) ==
    IF job_id \in DOMAIN jobs
    THEN /\ jobs' = Remove(jobs, job_id)
         /\ _save_jobs(jobs')
         /\ last' = Call("delete_job", job_id, <<>>, TRUE)
         /\ UNCHANGED <<others, clock, _lock, threads>>
    ELSE ReturnOnly("delete_job", job_id, <<>>, FALSE)

\* Python's None, where a job record is expected
NoJob == [none |-> TRUE]

\* job.copy(): a new dict with the same values
Copy(job) == job

check_status(job_id) ==
    LET job == IF job_id \in DOMAIN jobs THEN jobs[job_id] ELSE NoJob
    IN  ReturnOnly("check_status", job_id, <<>>,
                   IF job # NoJob THEN Copy(job) ELSE NoJob)

get_job(job_id) ==
    LET job == IF job_id \in DOMAIN jobs THEN jobs[job_id] ELSE NoJob
    IN  ReturnOnly("get_job", job_id, <<>>,
                   IF job # NoJob THEN Copy(job) ELSE NoJob)

\* {jid: job.copy() for jid, job in self.jobs.items()}, filtered by status
list_jobs(status) ==
    LET selected == IF Falsy(status)
                    THEN DOMAIN jobs
                    ELSE {jid \in DOMAIN jobs : jobs[jid].status = status}
    IN  ReturnOnly("list_jobs", None, <<status>>,
                   [jid \in selected |-> Copy(jobs[jid])])

\* sum(1 for job in self.jobs.values() if job['status'] == status)
status_count(status) == Cardinality({jid \in DOMAIN jobs : jobs[jid].status = status})

\* the quotient num / den of a true division, kept as the pair
Quotient(num, den) == [num |-> num, den |-> den]

\* as success_rate, without the factor 100
success_rate_ratio(completed, finished) ==
    IF finished > 0 THEN Quotient(completed, finished) ELSE Quotient(0, 1)

\* (completed / finished * 100) if finished > 0 else 0
success_rate(completed, finished) ==
    IF finished > 0 THEN Quotient(completed * 100, finished) ELSE Quotient(0, 1)

get_statistics ==
    LET total == Cardinality(DOMAIN jobs)
        completed == status_count(COMPLETED)
        failed == status_count(FAILED)
        finished == completed + failed
    IN  ReturnOnly("get_statistics", None, <<>>,
                   [total_jobs     |-> total,
                    queued_jobs    |-> status_count(QUEUED),
                    running_jobs   |-> status_count(RUNNING),
                    paused_jobs    |-> status_count(PAUSED),
                    completed_jobs |-> completed,
                    failed_jobs    |-> failed,
                    cancelled_jobs |-> status_count(CANCELLED),
                    success_rate   |-> success_rate(completed, finished)])

\* a direct call of the transition check
validate_transition_call(current_status, new_status) ==
    ReturnOnly("_validate_transition", None, <<current_status, new_status>>,
               _validate_transition(current_status, new_status))

Tick ==
    /\ clock < MaxClock
    /\ clock' = clock + 1
    /\ UNCHANGED <<others, jobs, jobs_file, save_failures, last, _lock, threads>>

\* the threads that call the manager, and a thread with no call in flight
Threads == {"t1", "t2"}
Idle ==
    [pc |-> "idle", op |-> "none", job_id |-> None, progress |-> 0,
     current_step |-> None, results |-> None, buf |-> NO_FILE, ret |-> FALSE,
     calls |-> 0]

\* a manager called from one thread: every method takes self._lock on entry
\* and has released it when it returns, so each call finds the lock free
Init ==
    /\ jobs = <<>>
    /\ jobs_file = NO_FILE
    /\ clock = 0
    /\ save_failures = 0
    /\ last = Call("init", None, <<>>, None)
    /\ _lock = None
    /\ threads = [t \in Threads |-> Idle]
    /\ InitOthers

Next ==
    \/ Tick
    \/ \E job_id \in JobIds, input \in StartInputs :
          start_deep_research(job_id, input[1], input[2])
    \/ \E job_id \in JobIds, progress \in ProgressInputs, current_step \in StepInputs :
          update_progress(job_id, progress, current_step)
    \/ \E job_id \in JobIds : resume_job(job_id)
    \/ \E job_id \in JobIds : pause_job(job_id)
    \/ \E job_id \in JobIds, results \in ResultInputs : complete_job(job_id, results)
    \/ \E job_id \in JobIds, error \in ErrorInputs : fail_job(job_id, error)
    \/ \E job_id \in JobIds : cancel_job(job_id)
    \/ \E job_id \in JobIds : delete_job(job_id)

Spec == Init /\ [][Next]_vars

(***************************************************************************)
(* The transition check on its own: called directly with every pair of     *)
(* statuses, and by resume_job, its one caller, on the jobs that           *)
(* start_deep_research and pause_job provide.                              *)
(***************************************************************************)
NextValidate ==
    \/ \E current_status \in JobStatus, new_status \in JobStatus :
          validate_transition_call(current_status, new_status)
    \/ \E job_id \in JobIds, input \in StartInputs :
          start_deep_research(job_id, input[1], input[2])
    \/ \E job_id \in JobIds : resume_job(job_id)
    \/ \E job_id \in JobIds : pause_job(job_id)

SpecValidate == Init /\ [][NextValidate]_vars

(***************************************************************************)
(* Two ids for uuid to draw from, so that two jobs exist side by side and  *)
(* an id can be unknown while the table holds a job.  pause_job, fail_job  *)
(* and cancel_job are called here with unknown ids only.                   *)
(***************************************************************************)
JobIds2 == {"a1b2c3d4", "e5f6a7b8"}
StartInputs2 == { <<"X", None>> }
ProgressInputs2 == {50}
StepInputs2 == {None, "", "research"}

NextTwo ==
    \/ \E job_id \in JobIds2, input \in StartInputs2 :
          start_deep_research(job_id, input[1], input[2])
    \/ \E job_id \in JobIds2, progress \in ProgressInputs2, current_step \in StepInputs2 :
          update_progress(job_id, progress, current_step)
    \/ \E job_id \in JobIds2 : resume_job(job_id)
    \/ \E job_id \in JobIds2, results \in ResultInputs : complete_job(job_id, results)
    \/ \E job_id \in JobIds2 : delete_job(job_id)
    \/ \E job_id \in JobIds2 : check_status(job_id)
    \/ \E job_id \in JobIds2 : get_job(job_id)
    \/ \E job_id \in JobIds2 \ DOMAIN jobs : pause_job(job_id)
    \/ \E job_id \in JobIds2 \ DOMAIN jobs, error \in ErrorInputs : fail_job(job_id, error)
    \/ \E job_id \in JobIds2 \ DOMAIN jobs : cancel_job(job_id)

SpecTwo == Init /\ [][NextTwo]_vars

(***************************************************************************)
(* Two jobs side by side, each taken through every operation, with the     *)
(* statistics read in between.                                             *)
(***************************************************************************)
StepInputsMany == {"research"}

NextMany ==
    \/ \E job_id \in JobIds2, input \in StartInputs2 :
          start_deep_research(job_id, input[1], input[2])
    \/ \E job_id \in JobIds2, progress \in ProgressInputs2, current_step \in StepInputsMany :
          update_progress(job_id, progress, current_step)
    \/ \E job_id \in JobIds2 : resume_job(job_id)
    \/ \E job_id \in JobIds2 : pause_job(job_id)
    \/ \E job_id \in JobIds2, results \in ResultInputs : complete_job(job_id, results)
    \/ \E job_id \in JobIds2, error \in ErrorInputs : fail_job(job_id, error)
    \/ \E job_id \in JobIds2 : cancel_job(job_id)
    \/ \E job_id \in JobIds2 : delete_job(job_id)
    \/ get_statistics

SpecMany == Init /\ [][NextMany]_vars

(***************************************************************************)
(* Restarts.  A manager is constructed over whatever the file holds: no    *)
(* file, a truncated one, JSON that is no table, or the table an earlier   *)
(* manager saved.  When json.load returned a list, self.jobs is that list  *)
(* and the dict operations on it raise.                                    *)
(***************************************************************************)
FilesOnDisk == {NO_FILE, CORRUPT, JSON_LIST, JSON_NULL}
ResultInputsRestart == {"{summary}", TupleResults}
Raised == "raised"

\* LongRunningJobManager(jobs_file) over the file as it is
construct ==
    /\ jobs' = _load_jobs(jobs_file)
    /\ last' = Call("__init__", None, <<>>, None)
    /\ UNCHANGED <<others, jobs_file, clock, save_failures, _lock, threads>>

\* self.jobs[job_id] = job on a list: TypeError
start_deep_research_raises(job_id, query, config) ==
    /\ ~IsDict(jobs)
    /\ last' = Call("start_deep_research", job_id, <<query, config>>, Raised)
    /\ UNCHANGED <<others, jobs, jobs_file, clock, save_failures, _lock, threads>>

\* self.jobs.get(job_id) on a list: AttributeError
check_status_raises(job_id) ==
    /\ ~IsDict(jobs)
    /\ last' = Call("check_status", job_id, <<>>, [raised |-> TRUE])
    /\ UNCHANGED <<others, jobs, jobs_file, clock, save_failures, _lock, threads>>

InitRestart ==
    /\ jobs_file \in FilesOnDisk
    /\ jobs = _load_jobs(jobs_file)
    /\ clock = 0
    /\ save_failures = 0
    /\ last = Call("__init__", None, <<>>, None)
    /\ _lock = None
    /\ threads = [t \in Threads |-> Idle]
    /\ InitOthers

NextRestart ==
    \/ construct
    \/ Tick
    \/ \E job_id \in JobIds, input \in StartInputs :
          \/ IsDict(jobs) /\ start_deep_research(job_id, input[1], input[2])
          \/ start_deep_research_raises(job_id, input[1], input[2])
    \/ \E job_id \in JobIds :
          \/ IsDict(jobs) /\ check_status(job_id)
          \/ check_status_raises(job_id)
    \/ \E job_id \in JobIds, progress \in ProgressInputs2, current_step \in StepInputs :
          IsDict(jobs) /\ update_progress(job_id, progress, current_step)
    \/ \E job_id \in JobIds : IsDict(jobs) /\ resume_job(job_id)
    \/ \E job_id \in JobIds : IsDict(jobs) /\ pause_job(job_id)
    \/ \E job_id \in JobIds, results \in ResultInputsRestart :
          IsDict(jobs) /\ complete_job(job_id, results)

SpecRestart == InitRestart /\ [][NextRestart]_vars

(***************************************************************************)
(* The caller's side of the object references.  job.copy() copies the      *)
(* record's top level only, so the config and results inside a returned    *)
(* record are the objects the table holds; start_deep_research stores the  *)
(* caller's config object when it is not falsy, and complete_job stores    *)
(* the caller's results object.  A caller's write is taken right after the *)
(* call that gave it the reference, while the table still holds the        *)
(* object.                                                                 *)
(***************************************************************************)
StatusFilters == {None, RUNNING}
NestedFields == {"config", "results"}
Pristine == {EmptyDict, "{parallel}", "{summary}"}

\* obj["injected"] = True
Modify(obj) == obj \o "+injected"

\* the records the caller received from the last call
Snapshots ==
    IF last.op \in {"check_status", "get_job"} /\ last.ret # NoJob
    THEN {last.id}
    ELSE IF last.op = "list_jobs" THEN DOMAIN last.ret ELSE {}

\* snapshot["status"] = "cancelled": a write to the copy's top level
caller_modifies_snapshot ==
    /\ \E job_id \in Snapshots :
          last' = Call("caller_modifies", job_id, <<"status">>, None)
    /\ UNCHANGED <<others, jobs, jobs_file, clock, save_failures, _lock, threads>>

\* snapshot["config"]["injected"] = True, likewise for results
caller_modifies_nested ==
    \E job_id \in Snapshots, field \in NestedFields :
        /\ jobs[job_id][field] \in Pristine
        /\ jobs' = [jobs EXCEPT ![job_id][field] = Modify(@)]
        /\ last' = Call("caller_modifies", job_id, <<field>>, None)
        /\ UNCHANGED <<others, jobs_file, clock, save_failures, _lock, threads>>

\* a write to the config or results object the caller passed in
caller_modifies_argument ==
    \/ /\ last.op = "start_deep_research"
       /\ ~Falsy(last.args[2])
       /\ jobs[last.ret].config \in Pristine
       /\ jobs' = [jobs EXCEPT ![last.ret].config = Modify(@)]
       /\ last' = Call("caller_modifies", last.ret, <<"config">>, None)
       /\ UNCHANGED <<others, jobs_file, clock, save_failures, _lock, threads>>
    \/ /\ last.op = "complete_job"
       /\ last.ret = TRUE
       /\ jobs[last.id].results \in Pristine
       /\ jobs' = [jobs EXCEPT ![last.id].results = Modify(@)]
       /\ last' = Call("caller_modifies", last.id, <<"results">>, None)
       /\ UNCHANGED <<others, jobs_file, clock, save_failures, _lock, threads>>

NextAlias ==
    \/ \E job_id \in JobIds, input \in StartInputs :
          start_deep_research(job_id, input[1], input[2])
    \/ \E job_id \in JobIds : resume_job(job_id)
    \/ \E job_id \in JobIds, results \in ResultInputs : complete_job(job_id, results)
    \/ \E job_id \in JobIds : check_status(job_id)
    \/ \E job_id \in JobIds : get_job(job_id)
    \/ \E status \in StatusFilters : list_jobs(status)
    \/ caller_modifies_snapshot
    \/ caller_modifies_nested
    \/ caller_modifies_argument

SpecAlias == Init /\ [][NextAlias]_vars

(***************************************************************************)
(* Threads.  Two threads call one manager, each writing to a job of its    *)
(* own and reading any job.  A call is taken statement by statement:       *)
(* `with self._lock` blocks until the lock is free, the body runs one      *)
(* statement at a time, leaving the with block releases the lock.          *)
(* _save_jobs opens the file for writing, which truncates it, json.dump    *)
(* encodes the table into the file object, and closing it puts the text on *)
(* disk.                                                                   *)
(***************************************************************************)
MaxCalls == 2
JobOf == [t \in Threads |-> IF t = "t1" THEN "a1b2c3d4" ELSE "e5f6a7b8"]
ThreadProgressInputs == {40}
ThreadStepInputs == {None, "research"}

\* the record of a job that was started and resumed
RunningJob(job_id) ==
    [job_id       |-> job_id,
     query        |-> "X",
     status       |-> RUNNING,
     created_at   |-> 0,
     updated_at   |-> 0,
     progress     |-> 0,
     current_step |-> None,
     results      |-> None,
     error        |-> None,
     config       |-> EmptyDict]

\* thread t moves to pc, its other locals as given
Goto(t, pc) == threads' = [threads EXCEPT ![t].pc = pc]

At(t, pc) == threads[t].pc = pc

\* the statement at pc of thread t, run while holding the lock's with block
Statement(t, pc, next) ==
    /\ At(t, pc)
    /\ Goto(t, next)
    /\ UNCHANGED <<others, clock, last, _lock>>

call_update_progress(t, progress, current_step) ==
    /\ At(t, "idle")
    /\ threads[t].calls < MaxCalls
    /\ threads' = [threads EXCEPT ![t] =
          [Idle EXCEPT !.pc = "acquire", !.op = "update_progress",
                       !.job_id = JobOf[t], !.progress = progress,
                       !.current_step = current_step,
                       !.calls = threads[t].calls + 1]]
    /\ UNCHANGED <<others, jobs, jobs_file, clock, save_failures, last, _lock>>

call_complete_job(t, results) ==
    /\ At(t, "idle")
    /\ threads[t].calls < MaxCalls
    /\ threads' = [threads EXCEPT ![t] =
          [Idle EXCEPT !.pc = "acquire", !.op = "complete_job",
                       !.job_id = JobOf[t], !.results = results,
                       !.calls = threads[t].calls + 1]]
    /\ UNCHANGED <<others, jobs, jobs_file, clock, save_failures, last, _lock>>

call_check_status(t, job_id) ==
    /\ At(t, "idle")
    /\ threads[t].calls < MaxCalls
    /\ threads' = [threads EXCEPT ![t] =
          [Idle EXCEPT !.pc = "acquire", !.op = "check_status",
                       !.job_id = job_id, !.ret = NoJob,
                       !.calls = threads[t].calls + 1]]
    /\ UNCHANGED <<others, jobs, jobs_file, clock, save_failures, last, _lock>>

\* as acquire, entering without waiting for the lock
acquire_unchecked(t) ==
    /\ At(t, "acquire")
    /\ _lock' = t
    /\ Goto(t, threads[t].op)
    /\ UNCHANGED <<others, jobs, jobs_file, clock, save_failures, last>>

\* with self._lock: entered only when no thread holds the lock
acquire(t) ==
    /\ At(t, "acquire")
    /\ _lock = None
    /\ _lock' = t
    /\ Goto(t, threads[t].op)
    /\ UNCHANGED <<others, jobs, jobs_file, clock, save_failures, last>>

\* leaving the with block, the method returns
release(t) ==
    /\ At(t, "release")
    /\ _lock' = None
    /\ Goto(t, "idle")
    /\ UNCHANGED <<others, jobs, jobs_file, clock, save_failures, last>>

\* if job_id not in self.jobs: return False
update_progress_check(t) ==
    /\ At(t, "update_progress")
    /\ IF threads[t].job_id \notin DOMAIN jobs
       THEN threads' = [threads EXCEPT ![t].pc = "release", ![t].ret = FALSE]
       ELSE Goto(t, "set_progress")
    /\ UNCHANGED <<others, jobs, jobs_file, clock, save_failures, last, _lock>>

\* self.jobs[job_id]['progress'] = max(0, min(100, progress))
update_progress_set_progress(t) ==
    /\ Statement(t, "set_progress", "set_updated_at")
    /\ jobs' = [jobs EXCEPT ![threads[t].job_id].progress =
                   Max(0, Min(100, threads[t].progress))]
    /\ UNCHANGED <<others, jobs_file, save_failures>>

\* self.jobs[job_id]['updated_at'] = datetime.now().isoformat()
update_progress_set_updated_at(t) ==
    /\ Statement(t, "set_updated_at", "set_current_step")
    /\ jobs' = [jobs EXCEPT ![threads[t].job_id].updated_at = Now]
    /\ UNCHANGED <<others, jobs_file, save_failures>>

\* if current_step: self.jobs[job_id]['current_step'] = current_step
update_progress_set_current_step(t) ==
    /\ Statement(t, "set_current_step", "save_open")
    /\ jobs' = [jobs EXCEPT ![threads[t].job_id].current_step =
                   IF Falsy(threads[t].current_step) THEN @ ELSE threads[t].current_step]
    /\ UNCHANGED <<others, jobs_file, save_failures>>

\* if job_id not in self.jobs: return False
complete_job_check(t) ==
    /\ At(t, "complete_job")
    /\ IF threads[t].job_id \notin DOMAIN jobs
       THEN threads' = [threads EXCEPT ![t].pc = "release", ![t].ret = FALSE]
       ELSE Goto(t, "set_status")
    /\ UNCHANGED <<others, jobs, jobs_file, clock, save_failures, last, _lock>>

\* self.jobs[job_id]['status'] = JobStatus.COMPLETED.value
complete_job_set_status(t) ==
    /\ Statement(t, "set_status", "set_100")
    /\ jobs' = [jobs EXCEPT ![threads[t].job_id].status = COMPLETED]
    /\ UNCHANGED <<others, jobs_file, save_failures>>

\* self.jobs[job_id]['progress'] = 100
complete_job_set_progress(t) ==
    /\ Statement(t, "set_100", "set_results")
    /\ jobs' = [jobs EXCEPT ![threads[t].job_id].progress = 100]
    /\ UNCHANGED <<others, jobs_file, save_failures>>

\* self.jobs[job_id]['results'] = results
complete_job_set_results(t) ==
    /\ Statement(t, "set_results", "set_completed_at")
    /\ jobs' = [jobs EXCEPT ![threads[t].job_id].results = threads[t].results]
    /\ UNCHANGED <<others, jobs_file, save_failures>>

\* self.jobs[job_id]['updated_at'] = datetime.now().isoformat()
complete_job_set_updated_at(t) ==
    /\ Statement(t, "set_completed_at", "save_open")
    /\ jobs' = [jobs EXCEPT ![threads[t].job_id].updated_at = Now]
    /\ UNCHANGED <<others, jobs_file, save_failures>>

\* job = self.jobs.get(job_id); return job.copy() if job else None
check_status_read(t) ==
    /\ At(t, "check_status")
    /\ threads' = [threads EXCEPT
          ![t].pc = "release",
          ![t].ret = IF threads[t].job_id \in DOMAIN jobs
                     THEN Copy(jobs[threads[t].job_id]) ELSE NoJob]
    /\ UNCHANGED <<others, jobs, jobs_file, clock, save_failures, last, _lock>>

\* mkdir and open(self.jobs_file, 'w'): the file is empty, or OSError
save_open(t) ==
    /\ At(t, "save_open")
    /\ \/ /\ jobs_file' = CORRUPT
          /\ Goto(t, "save_dump")
          /\ UNCHANGED save_failures
       \/ /\ save_failures < MaxSaveFailures
          /\ save_failures' = save_failures + 1
          /\ threads' = [threads EXCEPT ![t].pc = "release", ![t].ret = TRUE]
          /\ UNCHANGED jobs_file
    /\ UNCHANGED <<others, jobs, clock, last, _lock>>

\* json.dump(self.jobs, f, ...): the table as it is now, or an exception
save_dump(t) ==
    /\ At(t, "save_dump")
    /\ \/ /\ threads' = [threads EXCEPT ![t].pc = "save_close",
                                        ![t].buf = json_dump(jobs)]
          /\ UNCHANGED save_failures
       \/ /\ save_failures < MaxSaveFailures
          /\ save_failures' = save_failures + 1
          /\ threads' = [threads EXCEPT ![t].pc = "release", ![t].ret = TRUE]
    /\ UNCHANGED <<others, jobs, jobs_file, clock, last, _lock>>

\* the with open(...) block ends: the text is on disk; return True
save_close(t) ==
    /\ At(t, "save_close")
    /\ jobs_file' = threads[t].buf
    /\ threads' = [threads EXCEPT ![t].pc = "release", ![t].ret = TRUE,
                                  ![t].buf = NO_FILE]
    /\ UNCHANGED <<others, jobs, clock, save_failures, last, _lock>>

InitThreads ==
    /\ jobs = [job_id \in JobIds2 |-> RunningJob(job_id)]
    /\ jobs_file = json_dump(jobs)
    /\ clock = 0
    /\ save_failures = 0
    /\ last = Call("init", None, <<>>, None)
    /\ _lock = None
    /\ threads = [t \in Threads |-> Idle]
    /\ InitOthers

NextThreads ==
    \/ \E t \in Threads, progress \in ThreadProgressInputs, current_step \in ThreadStepInputs :
          call_update_progress(t, progress, current_step)
    \/ \E t \in Threads, results \in ResultInputs : call_complete_job(t, results)
    \/ \E t \in Threads, job_id \in JobIds2 : call_check_status(t, job_id)
    \/ \E t \in Threads : acquire(t)
    \/ \E t \in Threads : release(t)
    \/ \E t \in Threads : update_progress_check(t)
    \/ \E t \in Threads : update_progress_set_progress(t)
    \/ \E t \in Threads : update_progress_set_updated_at(t)
    \/ \E t \in Threads : update_progress_set_current_step(t)
    \/ \E t \in Threads : complete_job_check(t)
    \/ \E t \in Threads : complete_job_set_status(t)
    \/ \E t \in Threads : complete_job_set_progress(t)
    \/ \E t \in Threads : complete_job_set_results(t)
    \/ \E t \in Threads : complete_job_set_updated_at(t)
    \/ \E t \in Threads : check_status_read(t)
    \/ \E t \in Threads : save_open(t)
    \/ \E t \in Threads : save_dump(t)
    \/ \E t \in Threads : save_close(t)

SpecThreads == InitThreads /\ [][NextThreads]_vars

(***************************************************************************)
(* simulate_deep_research.  Thread t1 runs the pipeline on a job that was  *)
(* started and resumed; each stage's agent returns or raises an Exception. *)
(* Thread t2 is a user who may cancel the job at any moment.  The calls    *)
(* into the manager are taken statement by statement under the lock, as    *)
(* above.  The runner's record carries, besides the locals of the call in  *)
(* flight, its place in simulate_deep_research (at, stage), the log of     *)
(* what it did, and the value it returned.                                 *)
(***************************************************************************)
Runners == {"t1"}
Users == {"t2"}
RunnerJob == "a1b2c3d4"
Stages == 1..5
StageProgress == [k \in Stages |-> 20 * k]
StageStep ==
    <<"Understanding query", "Conducting research", "Fact checking",
      "Synthesizing summary", "Creating action plan">>
AggregatedResults == "{summary, action_plan, subtopics, verified_findings_count}"

RunnerStart ==
    [pc |-> "idle", op |-> "none", job_id |-> RunnerJob, progress |-> 0,
     current_step |-> None, results |-> None, error |-> None, buf |-> NO_FILE,
     ret |-> FALSE, at |-> "report", stage |-> 1, log |-> <<>>, value |-> None]

\* the runner t is at place at, with no call into the manager in flight
RunnerAt(t, at) == At(t, "idle") /\ threads[t].at = at

\* job_manager.update_progress(job_id, 20 * k, step k)
run_update_progress(t) ==
    /\ RunnerAt(t, "report")
    /\ LET w == threads[t]
       IN  threads' = [threads EXCEPT ![t] =
              [w EXCEPT !.pc = "acquire", !.op = "update_progress",
                        !.progress = StageProgress[w.stage],
                        !.current_step = StageStep[w.stage],
                        !.at = "agent",
                        !.log = Append(@, [event |-> "update_progress",
                                            progress |-> StageProgress[w.stage]])]]
    /\ UNCHANGED <<others, jobs, jobs_file, clock, save_failures, last, _lock>>

\* as run_agent_start, not waiting for the progress report to return
run_agent_start_early(t) ==
    /\ threads[t].at = "agent"
    /\ threads[t].pc \in {"idle", "acquire"}
    /\ LET w == threads[t]
       IN  threads' = [threads EXCEPT ![t] =
              [w EXCEPT !.at = "in_agent",
                        !.log = Append(@, [event |-> "agent_start", stage |-> w.stage])]]
    /\ UNCHANGED <<others, jobs, jobs_file, clock, save_failures, last, _lock>>

\* as run_agent_start, from inside the with block of the progress report
run_agent_start_locked(t) ==
    /\ threads[t].at = "agent"
    /\ threads[t].pc = "release"
    /\ LET w == threads[t]
       IN  threads' = [threads EXCEPT ![t] =
              [w EXCEPT !.at = "in_agent",
                        !.log = Append(@, [event |-> "agent_start", stage |-> w.stage])]]
    /\ UNCHANGED <<others, jobs, jobs_file, clock, save_failures, last, _lock>>

\* agent = ...Agent(); agent.run(...) is entered
run_agent_start(t) ==
    /\ RunnerAt(t, "agent")
    /\ LET w == threads[t]
       IN  threads' = [threads EXCEPT ![t] =
              [w EXCEPT !.at = "in_agent",
                        !.log = Append(@, [event |-> "agent_start", stage |-> w.stage])]]
    /\ UNCHANGED <<others, jobs, jobs_file, clock, save_failures, last, _lock>>

\* agent.run(...) returns; after the fifth the results are put together
run_agent_returns(t) ==
    /\ RunnerAt(t, "in_agent")
    /\ LET w == threads[t]
       IN  threads' = [threads EXCEPT ![t] =
              [w EXCEPT !.at = IF w.stage = 5 THEN "complete" ELSE "report",
                        !.stage = IF w.stage = 5 THEN 5 ELSE w.stage + 1,
                        !.log = Append(@, [event |-> "agent_return", stage |-> w.stage])]]
    /\ UNCHANGED <<others, jobs, jobs_file, clock, save_failures, last, _lock>>

\* as run_agent_raises, going on to the next stage
run_agent_raises_ignored(t, e) ==
    /\ RunnerAt(t, "in_agent")
    /\ LET w == threads[t]
       IN  threads' = [threads EXCEPT ![t] =
              [w EXCEPT !.at = IF w.stage = 5 THEN "complete" ELSE "report",
                        !.stage = IF w.stage = 5 THEN 5 ELSE w.stage + 1,
                        !.log = Append(@, [event |-> "agent_raise", stage |-> w.stage])]]
    /\ UNCHANGED <<others, jobs, jobs_file, clock, save_failures, last, _lock>>

\* agent.run(...) raises e: control goes to except Exception as e
run_agent_raises(t, e) ==
    /\ RunnerAt(t, "in_agent")
    /\ LET w == threads[t]
       IN  threads' = [threads EXCEPT ![t] =
              [w EXCEPT !.at = "fail", !.error = e,
                        !.log = Append(@, [event |-> "agent_raise", stage |-> w.stage])]]
    /\ UNCHANGED <<others, jobs, jobs_file, clock, save_failures, last, _lock>>

\* as run_complete_job, returning the results without the call
run_complete_job_skipped(t) ==
    /\ RunnerAt(t, "complete")
    /\ threads' = [threads EXCEPT ![t] =
          [@ EXCEPT !.results = AggregatedResults, !.at = "return_results"]]
    /\ UNCHANGED <<others, jobs, jobs_file, clock, save_failures, last, _lock>>

\* job_manager.complete_job(job_id, results)
run_complete_job(t) ==
    /\ RunnerAt(t, "complete")
    /\ threads' = [threads EXCEPT ![t] =
          [@ EXCEPT !.pc = "acquire", !.op = "complete_job",
                    !.results = AggregatedResults,
                    !.at = "return_results",
                    !.log = Append(@, [event |-> "complete_job"])]]
    /\ UNCHANGED <<others, jobs, jobs_file, clock, save_failures, last, _lock>>

\* job_manager.fail_job(job_id, str(e))
run_fail_job(t) ==
    /\ RunnerAt(t, "fail")
    /\ threads' = [threads EXCEPT ![t] =
          [@ EXCEPT !.pc = "acquire", !.op = "fail_job",
                    !.at = "return_none",
                    !.log = Append(@, [event |-> "fail_job"])]]
    /\ UNCHANGED <<others, jobs, jobs_file, clock, save_failures, last, _lock>>

\* return results, or return None after fail_job
run_return(t) ==
    /\ \/ RunnerAt(t, "return_results")
       \/ RunnerAt(t, "return_none")
    /\ threads' = [threads EXCEPT ![t] =
          [@ EXCEPT !.at = "done",
                    !.value = IF threads[t].at = "return_results"
                              THEN threads[t].results ELSE None]]
    /\ UNCHANGED <<others, jobs, jobs_file, clock, save_failures, last, _lock>>

\* if job_id not in self.jobs: return False
fail_job_check(t) ==
    /\ At(t, "fail_job")
    /\ IF threads[t].job_id \notin DOMAIN jobs
       THEN threads' = [threads EXCEPT ![t].pc = "release", ![t].ret = FALSE]
       ELSE Goto(t, "set_failed")
    /\ UNCHANGED <<others, jobs, jobs_file, clock, save_failures, last, _lock>>

\* self.jobs[job_id]['status'] = JobStatus.FAILED.value
fail_job_set_status(t) ==
    /\ Statement(t, "set_failed", "set_error")
    /\ jobs' = [jobs EXCEPT ![threads[t].job_id].status = FAILED]
    /\ UNCHANGED <<others, jobs_file, save_failures>>

\* as fail_job_set_error, setting the progress back to 0 as well
fail_job_set_error_resets(t) ==
    /\ Statement(t, "set_error", "set_failed_at")
    /\ jobs' = [jobs EXCEPT ![threads[t].job_id].error = threads[t].error,
                            ![threads[t].job_id].progress = 0]
    /\ UNCHANGED <<others, jobs_file, save_failures>>

\* self.jobs[job_id]['error'] = str(error)
fail_job_set_error(t) ==
    /\ Statement(t, "set_error", "set_failed_at")
    /\ jobs' = [jobs EXCEPT ![threads[t].job_id].error = threads[t].error]
    /\ UNCHANGED <<others, jobs_file, save_failures>>

\* self.jobs[job_id]['updated_at'] = datetime.now().isoformat()
fail_job_set_updated_at(t) ==
    /\ Statement(t, "set_failed_at", "save_open")
    /\ jobs' = [jobs EXCEPT ![threads[t].job_id].updated_at = Now]
    /\ UNCHANGED <<others, jobs_file, save_failures>>

call_cancel_job(t, job_id) ==
    /\ At(t, "idle")
    /\ threads[t].calls < MaxCalls
    /\ threads' = [threads EXCEPT ![t] =
          [Idle EXCEPT !.pc = "acquire", !.op = "cancel_job",
                       !.job_id = job_id,
                       !.calls = threads[t].calls + 1]]
    /\ UNCHANGED <<others, jobs, jobs_file, clock, save_failures, last, _lock>>

\* as cancel_job_read, the early return leaving the with block unreleased
cancel_job_read_keeps_lock(t) ==
    /\ At(t, "cancel_job")
    /\ threads[t].job_id \in DOMAIN jobs => jobs[threads[t].job_id].status \in JobStatus
    /\ IF \/ threads[t].job_id \notin DOMAIN jobs
          \/ jobs[threads[t].job_id].status \in {COMPLETED, FAILED, CANCELLED}
       THEN threads' = [threads EXCEPT ![t].pc = "idle", ![t].ret = FALSE]
       ELSE Goto(t, "set_cancelled")
    /\ UNCHANGED <<others, jobs, jobs_file, clock, save_failures, last, _lock>>

\* job = self.jobs.get(job_id): return False if there is none or its status
\* is Completed, Failed or Cancelled
cancel_job_read(t) ==
    /\ At(t, "cancel_job")
    /\ threads[t].job_id \in DOMAIN jobs => jobs[threads[t].job_id].status \in JobStatus
    /\ IF \/ threads[t].job_id \notin DOMAIN jobs
          \/ jobs[threads[t].job_id].status \in {COMPLETED, FAILED, CANCELLED}
       THEN threads' = [threads EXCEPT ![t].pc = "release", ![t].ret = FALSE]
       ELSE Goto(t, "set_cancelled")
    /\ UNCHANGED <<others, jobs, jobs_file, clock, save_failures, last, _lock>>

\* self.jobs[job_id]['status'] = JobStatus.CANCELLED.value
cancel_job_set_status(t) ==
    /\ Statement(t, "set_cancelled", "set_cancelled_at")
    /\ jobs' = [jobs EXCEPT ![threads[t].job_id].status = CANCELLED]
    /\ UNCHANGED <<others, jobs_file, save_failures>>

\* self.jobs[job_id]['updated_at'] = datetime.now().isoformat()
cancel_job_set_updated_at(t) ==
    /\ Statement(t, "set_cancelled_at", "save_open")
    /\ jobs' = [jobs EXCEPT ![threads[t].job_id].updated_at = Now]
    /\ UNCHANGED <<others, jobs_file, save_failures>>

InitRunner ==
    /\ jobs = [job_id \in {RunnerJob} |-> RunningJob(job_id)]
    /\ jobs_file = json_dump(jobs)
    /\ clock = 0
    /\ save_failures = 0
    /\ last = Call("init", None, <<>>, None)
    /\ _lock = None
    /\ threads = [t \in Threads |-> IF t \in Runners THEN RunnerStart ELSE Idle]
    /\ InitOthers

NextRunner ==
    \/ \E t \in Runners : run_update_progress(t)
    \/ \E t \in Runners : run_agent_start(t)
    \/ \E t \in Runners : run_agent_returns(t)
    \/ \E t \in Runners, e \in ErrorInputs : run_agent_raises(t, e)
    \/ \E t \in Runners : run_complete_job(t)
    \/ \E t \in Runners : run_fail_job(t)
    \/ \E t \in Runners : run_return(t)
    \/ \E t \in Users : call_cancel_job(t, RunnerJob)
    \/ \E t \in Threads : acquire(t)
    \/ \E t \in Threads : release(t)
    \/ \E t \in Threads : update_progress_check(t)
    \/ \E t \in Threads : update_progress_set_progress(t)
    \/ \E t \in Threads : update_progress_set_updated_at(t)
    \/ \E t \in Threads : update_progress_set_current_step(t)
    \/ \E t \in Threads : complete_job_check(t)
    \/ \E t \in Threads : complete_job_set_status(t)
    \/ \E t \in Threads : complete_job_set_progress(t)
    \/ \E t \in Threads : complete_job_set_results(t)
    \/ \E t \in Threads : complete_job_set_updated_at(t)
    \/ \E t \in Threads : fail_job_check(t)
    \/ \E t \in Threads : fail_job_set_status(t)
    \/ \E t \in Threads : fail_job_set_error(t)
    \/ \E t \in Threads : fail_job_set_updated_at(t)
    \/ \E t \in Threads : cancel_job_read(t)
    \/ \E t \in Threads : cancel_job_set_status(t)
    \/ \E t \in Threads : cancel_job_set_updated_at(t)
    \/ \E t \in Threads : save_open(t)
    \/ \E t \in Threads : save_dump(t)
    \/ \E t \in Threads : save_close(t)

SpecRunner == InitRunner /\ [][NextRunner]_vars

(***************************************************************************)
(* The registry's lock under fair scheduling.  Two threads call            *)
(* update_progress, complete_job, check_status and cancel_job at will, on  *)
(* the job of the table and on an id that is not there; the table may have *)
(* been loaded from a file whose record carries a status that is no        *)
(* JobStatus, on which cancel_job raises.  Every step of a call that is    *)
(* under way is eventually taken, and a thread waiting for the lock gets   *)
(* it if it is free again and again.                                       *)
(***************************************************************************)
StoredStatuses == {RUNNING, "archived"}

\* current_status = JobStatus(job['status']) raises ValueError: the with
\* block is left through the exception, which goes on to the caller
cancel_job_raises(t) ==
    /\ At(t, "cancel_job")
    /\ threads[t].job_id \in DOMAIN jobs
    /\ jobs[threads[t].job_id].status \notin JobStatus
    /\ Goto(t, "release")
    /\ UNCHANGED <<others, jobs, jobs_file, clock, save_failures, last, _lock>>

InitLock ==
    /\ \E status \in StoredStatuses :
          jobs = [job_id \in {RunnerJob} |-> [RunningJob(job_id) EXCEPT !.status = status]]
    /\ jobs_file = json_dump(jobs)
    /\ clock = 0
    /\ save_failures = 0
    /\ last = Call("init", None, <<>>, None)
    /\ _lock = None
    /\ threads = [t \in Threads |-> Idle]
    /\ InitOthers

\* the steps of a call of thread t once it holds the lock
InsideLock(t) ==
    \/ release(t)
    \/ update_progress_check(t)
    \/ update_progress_set_progress(t)
    \/ update_progress_set_updated_at(t)
    \/ update_progress_set_current_step(t)
    \/ complete_job_check(t)
    \/ complete_job_set_status(t)
    \/ complete_job_set_progress(t)
    \/ complete_job_set_results(t)
    \/ complete_job_set_updated_at(t)
    \/ check_status_read(t)
    \/ cancel_job_read(t)
    \/ cancel_job_raises(t)
    \/ cancel_job_set_status(t)
    \/ cancel_job_set_updated_at(t)
    \/ save_open(t)
    \/ save_dump(t)
    \/ save_close(t)

NextLock ==
    \/ \E t \in Threads, progress \in ThreadProgressInputs :
          call_update_progress(t, progress, None)
    \/ \E t \in Threads, results \in ResultInputs : call_complete_job(t, results)
    \/ \E t \in Threads : call_check_status(t, RunnerJob)
    \/ \E t \in Threads : call_cancel_job(t, RunnerJob)
    \/ \E t \in Threads : acquire(t)
    \/ \E t \in Threads : InsideLock(t)

FairScheduling ==
    \A t \in Threads : SF_vars(acquire(t)) /\ WF_vars(InsideLock(t))

SpecLock == InitLock /\ [][NextLock]_vars /\ FairScheduling

(***************************************************************************)
(* A run of simulate_deep_research beside the calls of another thread:     *)
(* thread t2 polls check_status on either job and reports progress on a    *)
(* job of its own, as a second runner does.  The steps of calls into the   *)
(* manager are scheduled fairly; nothing makes an agent return.            *)
(***************************************************************************)
InitPolling ==
    /\ jobs = [job_id \in JobIds2 |-> RunningJob(job_id)]
    /\ jobs_file = json_dump(jobs)
    /\ clock = 0
    /\ save_failures = 0
    /\ last = Call("init", None, <<>>, None)
    /\ _lock = None
    /\ threads = [t \in Threads |-> IF t \in Runners THEN RunnerStart ELSE Idle]
    /\ InitOthers

\* the steps of a call of thread t into the manager once it holds the lock
InsideManager(t) ==
    \/ release(t)
    \/ update_progress_check(t)
    \/ update_progress_set_progress(t)
    \/ update_progress_set_updated_at(t)
    \/ update_progress_set_current_step(t)
    \/ complete_job_check(t)
    \/ complete_job_set_status(t)
    \/ complete_job_set_progress(t)
    \/ complete_job_set_results(t)
    \/ complete_job_set_updated_at(t)
    \/ fail_job_check(t)
    \/ fail_job_set_status(t)
    \/ fail_job_set_error(t)
    \/ fail_job_set_updated_at(t)
    \/ check_status_read(t)
    \/ save_open(t)
    \/ save_dump(t)
    \/ save_close(t)

NextPolling ==
    \/ \E t \in Runners : run_update_progress(t)
    \/ \E t \in Runners : run_agent_start(t)
    \/ \E t \in Runners : run_agent_returns(t)
    \/ \E t \in Runners, e \in ErrorInputs : run_agent_raises(t, e)
    \/ \E t \in Runners : run_complete_job(t)
    \/ \E t \in Runners : run_fail_job(t)
    \/ \E t \in Runners : run_return(t)
    \/ \E t \in Users, job_id \in JobIds2 : call_check_status(t, job_id)
    \/ \E t \in Users, progress \in ThreadProgressInputs :
          call_update_progress(t, progress, None)
    \/ \E t \in Threads : acquire(t)
    \/ \E t \in Threads : InsideManager(t)

SpecPolling ==
    /\ InitPolling
    /\ [][NextPolling]_vars
    /\ \A t \in Threads : SF_vars(acquire(t)) /\ WF_vars(InsideManager(t))

(***************************************************************************)
(* A run of simulate_deep_research while the user polls and deletes its    *)
(* job: delete_job statement by statement under the lock.                  *)
(***************************************************************************)
call_delete_job(t, job_id) ==
    /\ At(t, "idle")
    /\ threads[t].calls < MaxCalls
    /\ threads' = [threads EXCEPT ![t] =
          [Idle EXCEPT !.pc = "acquire", !.op = "delete_job",
                       !.job_id = job_id,
                       !.calls = threads[t].calls + 1]]
    /\ UNCHANGED <<others, jobs, jobs_file, clock, save_failures, last, _lock>>

\* if job_id in self.jobs: del self.jobs[job_id]; else return False
delete_job_del(t) ==
    /\ At(t, "delete_job")
    /\ IF threads[t].job_id \in DOMAIN jobs
       THEN /\ jobs' = Remove(jobs, threads[t].job_id)
            /\ Goto(t, "save_open")
       ELSE /\ threads' = [threads EXCEPT ![t].pc = "release", ![t].ret = FALSE]
            /\ UNCHANGED jobs
    /\ UNCHANGED <<others, jobs_file, clock, save_failures, last, _lock>>

NextRunnerDelete ==
    \/ \E t \in Runners : run_update_progress(t)
    \/ \E t \in Runners : run_agent_start(t)
    \/ \E t \in Runners : run_agent_returns(t)
    \/ \E t \in Runners, e \in ErrorInputs : run_agent_raises(t, e)
    \/ \E t \in Runners : run_complete_job(t)
    \/ \E t \in Runners : run_fail_job(t)
    \/ \E t \in Runners : run_return(t)
    \/ \E t \in Users : call_delete_job(t, RunnerJob)
    \/ \E t \in Users : call_check_status(t, RunnerJob)
    \/ \E t \in Threads : acquire(t)
    \/ \E t \in Threads : InsideManager(t)
    \/ \E t \in Threads : delete_job_del(t)

SpecRunnerDelete == InitRunner /\ [][NextRunnerDelete]_vars

(***************************************************************************)
(* RateLimiter (utils/rate_limiter.py), shared by the threads.  Time is    *)
(* counted in whole seconds; time.time() is the clock, which starts late   *)
(* enough for the constructor's last_request_time = 0.0 to lie a full      *)
(* interval in the past.  The field completed is history: the number of    *)
(* wait_if_needed calls that have returned since construction or reset.    *)
(***************************************************************************)
requests_per_minute == 30
min_interval == 60 \div requests_per_minute
StartTime == min_interval
MaxElapsed == 5

LimiterIdle ==
    [pc |-> "idle", op |-> "none", current_time |-> 0, wait_needed |-> 0,
     count |-> 0, ret |-> 0, calls |-> 0]

\* time passes
time_passes ==
    /\ clock < StartTime + MaxElapsed
    /\ clock' = clock + 1
    /\ UNCHANGED <<jobs, jobs_file, save_failures, last, _lock, threads, others>>

LimiterStep(t, pc, next) ==
    /\ At(t, pc)
    /\ Goto(t, next)
    /\ UNCHANGED <<jobs, jobs_file, clock, save_failures, last, _lock>>
    /\ UNCHANGED <<DEFAULT_STRUCTURE, data, memory_file, store>>

LimiterCall(t, op) ==
    /\ At(t, "idle")
    /\ threads[t].calls < MaxCalls
    /\ threads' = [threads EXCEPT ![t] =
          [LimiterIdle EXCEPT !.pc = "acquire", !.op = op,
                              !.calls = threads[t].calls + 1]]
    /\ UNCHANGED <<jobs, jobs_file, clock, save_failures, last, _lock, others>>

call_wait_if_needed(t) == LimiterCall(t, "wait_if_needed")

call_reset(t) == LimiterCall(t, "reset")

\* as limiter_acquire, entering without waiting for the lock
limiter_acquire_unchecked(t) ==
    /\ LimiterStep(t, "acquire", threads[t].op)
    /\ limiter' = [limiter EXCEPT !._lock = t]

\* with self._lock: entered only when no thread holds the lock
limiter_acquire(t) ==
    /\ limiter._lock = None
    /\ LimiterStep(t, "acquire", threads[t].op)
    /\ limiter' = [limiter EXCEPT !._lock = t]

\* current_time = time.time(); wait_needed = min_interval - time_since_last
wait_if_needed_read(t) ==
    /\ At(t, "wait_if_needed")
    /\ LET wait_needed == min_interval - (clock - limiter.last_request_time)
       IN  threads' = [threads EXCEPT ![t] =
              [@ EXCEPT !.pc = IF wait_needed > 0 THEN "sleep" ELSE "stamp",
                        !.current_time = clock,
                        !.wait_needed = wait_needed,
                        !.ret = IF wait_needed > 0 THEN wait_needed ELSE 0]]
    /\ UNCHANGED <<jobs, jobs_file, clock, save_failures, last, _lock, others>>

\* time.sleep(wait_needed) returns when at least wait_needed has passed
wait_if_needed_sleep(t) ==
    /\ clock >= threads[t].current_time + threads[t].wait_needed
    /\ LimiterStep(t, "sleep", "stamp")
    /\ UNCHANGED limiter

\* self.last_request_time = time.time()
wait_if_needed_stamp(t) ==
    /\ LimiterStep(t, "stamp", "read_count")
    /\ limiter' = [limiter EXCEPT !.last_request_time = clock]

\* self._request_count += 1, the read
wait_if_needed_read_count(t) ==
    /\ At(t, "read_count")
    /\ threads' = [threads EXCEPT ![t].pc = "write_count",
                                  ![t].count = limiter._request_count]
    /\ UNCHANGED <<jobs, jobs_file, clock, save_failures, last, _lock, others>>

\* self._request_count += 1, the write
wait_if_needed_write_count(t) ==
    /\ LimiterStep(t, "write_count", "release")
    /\ limiter' = [limiter EXCEPT !._request_count = threads[t].count + 1]

\* self.last_request_time = 0.0; self._request_count = 0
reset(t) ==
    /\ LimiterStep(t, "reset", "release")
    /\ limiter' = [limiter EXCEPT !.last_request_time = 0, !._request_count = 0,
                                  !.completed = 0]

\* leaving the with block, the method returns
limiter_release(t) ==
    /\ LimiterStep(t, "release", "idle")
    /\ limiter' = [limiter EXCEPT
          !._lock = None,
          !.completed = IF threads[t].op = "wait_if_needed" THEN @ + 1 ELSE @]

InitLimiter ==
    /\ jobs = <<>>
    /\ jobs_file = NO_FILE
    /\ clock = StartTime
    /\ save_failures = 0
    /\ last = Call("init", None, <<>>, None)
    /\ _lock = None
    /\ threads = [t \in Threads |-> LimiterIdle]
    /\ InitOthers

NextLimiter ==
    \/ time_passes
    \/ \E t \in Threads : call_wait_if_needed(t)
    \/ \E t \in Threads : call_reset(t)
    \/ \E t \in Threads : limiter_acquire(t)
    \/ \E t \in Threads : wait_if_needed_read(t)
    \/ \E t \in Threads : wait_if_needed_sleep(t)
    \/ \E t \in Threads : wait_if_needed_stamp(t)
    \/ \E t \in Threads : wait_if_needed_read_count(t)
    \/ \E t \in Threads : wait_if_needed_write_count(t)
    \/ \E t \in Threads : reset(t)
    \/ \E t \in Threads : limiter_release(t)

SpecLimiter == InitLimiter /\ [][NextLimiter]_vars

(***************************************************************************)
(* LongTermMemory (memory/long_term.py).  DEFAULT_STRUCTURE is the class's *)
(* dictionary: its three values are one dict and two lists that live as    *)
(* long as the process.  DEFAULT_STRUCTURE.copy() is a new dictionary with *)
(* those same three objects as values, so each value of an instance's      *)
(* self.data is either one of the class's objects (shared) or an object of *)
(* its own.  A dict is a function on its keys, a list a sequence.          *)
(***************************************************************************)
HISTORY_LIMIT == 50
MaxOps == 4
Instances == {"m1", "m2"}
Paths == {"p1", "p2"}
Keys == {"user_preferences", "frequent_queries", "query_history"}
\* a value json.dump cannot write
SetValue == "{1, 2}"
PrefKeys == {"summary_length"}
PrefValues == {"medium", TupleResults, SetValue}
Queries == {"What is AI?"}
Entry(query) == [query |-> query, timestamp |-> Now]
\* data handed to import_data: a full export holding 51 queries, and
\* preferences alone
BigExport ==
    [user_preferences |-> <<>>, frequent_queries |-> <<>>,
     query_history |-> [i \in 1..(HISTORY_LIMIT + 1) |-> Entry("old")]]
PreferencesOnly == [user_preferences |-> [key \in PrefKeys |-> "medium"]]
ImportInputs == {BigExport, PreferencesOnly}
\* the one caller of the memories
Caller == "t1"

Shared == [shared |-> TRUE]
Own(value) == [shared |-> FALSE, value |-> value]

\* self.data of a dictionary d of values, the class's objects being D
Content(D, d) ==
    [key \in Keys |-> IF d[key].shared THEN D[key] ELSE d[key].value]

\* self.data[key] of instance m
Deref(m, key) == Content(DEFAULT_STRUCTURE, data[m])[key]

\* the last limit elements of a list: history[-limit:]
Last(history, limit) ==
    IF Len(history) <= limit THEN history
    ELSE SubSeq(history, Len(history) - limit + 1, Len(history))

\* the dictionary with key set to value
With(dict, key, value) ==
    [k \in DOMAIN dict \cup {key} |-> IF k = key THEN value ELSE dict[k]]

\* the dictionary without key
Without(dict, key) == [k \in DOMAIN dict \ {key} |-> dict[k]]

\* dict.update(other)
Update(dict, other) ==
    [k \in DOMAIN dict \cup DOMAIN other |->
        IF k \in DOMAIN other THEN other[k] ELSE dict[k]]

\* json.dump raises TypeError on a value it cannot write
Serializable(content) ==
    \A k \in DOMAIN content.user_preferences : content.user_preferences[k] # SetValue

\* the file json.dump writes and json.load reads back
MemoryFile(content) ==
    [kind |-> "memory",
     content |-> [content EXCEPT !.user_preferences =
                     [k \in DOMAIN @ |-> json_value(@[k])]]]

\* _save: makedirs and open(file_path, 'w') may raise OSError before the file
\* is touched; open truncates the file, and a json.dump that raises (a value
\* that cannot be written, a full disk) leaves it partly written
_save(path, content) ==
    \/ /\ Serializable(content)
       /\ memory_file' = [memory_file EXCEPT ![path] = MemoryFile(content)]
       /\ UNCHANGED save_failures
    \/ /\ ~Serializable(content)
       /\ memory_file' = [memory_file EXCEPT ![path] = CORRUPT]
       /\ UNCHANGED save_failures
    \/ /\ save_failures < MaxSaveFailures
       /\ save_failures' = save_failures + 1
       /\ \/ UNCHANGED memory_file
          \/ memory_file' = [memory_file EXCEPT ![path] = CORRUPT]

\* a call of instance m that leaves the class's objects as D and self.data as d
MemoryOp(m, op, ret, D, d) ==
    /\ threads[Caller].calls < MaxOps
    /\ threads' = [threads EXCEPT ![Caller].calls = @ + 1]
    /\ DEFAULT_STRUCTURE' = D
    /\ data' = [x \in DOMAIN data \cup {m} |-> IF x = m THEN d ELSE data[x]]
    /\ last' = Call(op, m, <<>>, ret)
    /\ UNCHANGED <<jobs, jobs_file, clock, _lock, limiter, store>>

\* the value of self.data[key] changed in place: seen through every alias
Mutated(m, key, value) ==
    IF data[m][key].shared
    THEN [D |-> [DEFAULT_STRUCTURE EXCEPT ![key] = value], d |-> data[m]]
    ELSE [D |-> DEFAULT_STRUCTURE, d |-> [data[m] EXCEPT ![key] = Own(value)]]

\* self.data[key] = value, a new object
Rebound(m, key, value) ==
    [D |-> DEFAULT_STRUCTURE, d |-> [data[m] EXCEPT ![key] = Own(value)]]

\* self.data = self.DEFAULT_STRUCTURE.copy()
DefaultCopy(path) ==
    [file_path |-> path, user_preferences |-> Shared,
     frequent_queries |-> Shared, query_history |-> Shared]

\* LongTermMemory(file_path): _load
__init__(m, path) ==
    LET file == memory_file[path]
    IN  IF file.kind = "missing"
        THEN /\ MemoryOp(m, "__init__", None, DEFAULT_STRUCTURE, DefaultCopy(path))
             /\ _save(path, Content(DEFAULT_STRUCTURE, DefaultCopy(path)))
        ELSE /\ MemoryOp(m, "__init__", None, DEFAULT_STRUCTURE,
                    IF file.kind = "memory"
                    THEN [file_path |-> path,
                          user_preferences |-> Own(file.content.user_preferences),
                          frequent_queries |-> Own(file.content.frequent_queries),
                          query_history |-> Own(file.content.query_history)]
                    ELSE DefaultCopy(path))
             /\ UNCHANGED <<memory_file, save_failures>>

set_preference(m, key, value) ==
    /\ m \in DOMAIN data
    /\ LET new == Mutated(m, "user_preferences",
                          With(Deref(m, "user_preferences"), key, value))
       IN  /\ MemoryOp(m, "set_preference", None, new.D, new.d)
           /\ _save(new.d.file_path, Content(new.D, new.d))

delete_preference(m, key) ==
    /\ m \in DOMAIN data
    /\ IF key \in DOMAIN Deref(m, "user_preferences")
       THEN LET new == Mutated(m, "user_preferences",
                               Without(Deref(m, "user_preferences"), key))
            IN  /\ MemoryOp(m, "delete_preference", TRUE, new.D, new.d)
                /\ _save(new.d.file_path, Content(new.D, new.d))
       ELSE /\ MemoryOp(m, "delete_preference", FALSE, DEFAULT_STRUCTURE, data[m])
            /\ UNCHANGED <<memory_file, save_failures>>

\* append in place, then rebind to the last HISTORY_LIMIT entries if longer
add_query(m, query) ==
    /\ m \in DOMAIN data
    /\ LET appended == Mutated(m, "query_history",
                               Append(Deref(m, "query_history"), Entry(query)))
           history == Content(appended.D, appended.d).query_history
           new == IF Len(history) > HISTORY_LIMIT
                  THEN [D |-> appended.D,
                        d |-> [appended.d EXCEPT !.query_history =
                                  Own(Last(history, HISTORY_LIMIT))]]
                  ELSE appended
       IN  /\ MemoryOp(m, "add_query", None, new.D, new.d)
           /\ _save(new.d.file_path, Content(new.D, new.d))

\* history[-limit:] if limit > 0 else history
get_query_history(m, limit) ==
    IF limit > 0 THEN Last(Deref(m, "query_history"), limit)
    ELSE Deref(m, "query_history")

\* preferences.copy()
get_all_preferences(m) == Deref(m, "user_preferences")

\* self.data['query_history'] = []
clear_history(m) ==
    /\ m \in DOMAIN data
    /\ LET new == Rebound(m, "query_history", <<>>)
       IN  /\ MemoryOp(m, "clear_history", None, new.D, new.d)
           /\ _save(new.d.file_path, Content(new.D, new.d))

\* self.data = self.DEFAULT_STRUCTURE.copy()
clear_all(m) ==
    /\ m \in DOMAIN data
    /\ LET d == DefaultCopy(data[m].file_path)
       IN  /\ MemoryOp(m, "clear_all", None, DEFAULT_STRUCTURE, d)
           /\ _save(d.file_path, Content(DEFAULT_STRUCTURE, d))

\* _validate_structure after self.data = imported: a key that is missing is
\* given the class's own object
Replaced(path, imported) ==
    [key \in Keys |-> IF key \in DOMAIN imported THEN Own(imported[key]) ELSE Shared]
        @@ [file_path |-> path]

import_data(m, imported, merge) ==
    /\ m \in DOMAIN data
    /\ LET merged_prefs ==
               IF "user_preferences" \in DOMAIN imported
               THEN Mutated(m, "user_preferences",
                            Update(Deref(m, "user_preferences"), imported.user_preferences))
               ELSE [D |-> DEFAULT_STRUCTURE, d |-> data[m]]
           extended ==
               IF "query_history" \in DOMAIN imported
               THEN IF merged_prefs.d.query_history.shared
                    THEN merged_prefs.D.query_history \o imported.query_history
                    ELSE merged_prefs.d.query_history.value \o imported.query_history
               ELSE <<>>
           merged ==
               IF "query_history" \in DOMAIN imported
               THEN [D |-> IF merged_prefs.d.query_history.shared
                           THEN [merged_prefs.D EXCEPT !.query_history = extended]
                           ELSE merged_prefs.D,
                     d |-> [merged_prefs.d EXCEPT !.query_history =
                               Own(Last(extended, HISTORY_LIMIT))]]
               ELSE merged_prefs
           new == IF merge THEN merged
                  ELSE [D |-> DEFAULT_STRUCTURE,
                        d |-> Replaced(data[m].file_path, imported)]
       IN  /\ MemoryOp(m, "import_data", TRUE, new.D, new.d)
           /\ _save(new.d.file_path, Content(new.D, new.d))

InitMemory ==
    /\ jobs = <<>>
    /\ jobs_file = NO_FILE
    /\ clock = 0
    /\ save_failures = 0
    /\ last = Call("init", None, <<>>, None)
    /\ _lock = None
    /\ threads = [t \in Threads |-> Idle]
    /\ limiter = RateLimiter
    /\ DEFAULT_STRUCTURE =
          [user_preferences |-> <<>>, frequent_queries |-> <<>>, query_history |-> <<>>]
    /\ data = <<>>
    /\ memory_file = [path \in Paths |-> NO_FILE]
    /\ store = <<>>

NextMemory ==
    \/ \E m \in Instances, path \in Paths : __init__(m, path)
    \/ \E m \in Instances, key \in PrefKeys, value \in PrefValues :
          set_preference(m, key, value)
    \/ \E m \in Instances, key \in PrefKeys : delete_preference(m, key)
    \/ \E m \in Instances, query \in Queries : add_query(m, query)
    \/ \E m \in Instances : clear_history(m)
    \/ \E m \in Instances : clear_all(m)
    \/ \E m \in Instances, imported \in ImportInputs, merge \in BOOLEAN :
          import_data(m, imported, merge)

SpecMemory == InitMemory /\ [][NextMemory]_vars

(***************************************************************************)
(* SessionMemory (memory/session_memory.py).  self.store maps a session id *)
(* to the session's dictionary: the three keys of metadata and the keys    *)
(* the user set.  The ids come from uuid4 cut to eight characters, or from *)
(* the caller of set.  Times are readings of the clock.                    *)
(***************************************************************************)
RESERVED_KEYS == {"created_at", "last_updated", "access_count"}
SessionIds == {"1f0e9d8c", "7b6a5f4e"}
SessionKeys == {"user_name"} \cup RESERVED_KEYS
SessionValues == {"Alice", "Bob"}

\* the dictionary of a session created now
NewSessionData == [created_at |-> Now, last_updated |-> Now, access_count |-> 0]

\* a call of SessionMemory that leaves self.store as s
SessionOp(op, sid, args, ret, s) ==
    /\ threads[Caller].calls < MaxOps
    /\ threads' = [threads EXCEPT ![Caller].calls = @ + 1]
    /\ store' = s
    /\ last' = Call(op, sid, args, ret)
    /\ UNCHANGED <<jobs, jobs_file, clock, save_failures, _lock>>
    /\ UNCHANGED <<limiter, DEFAULT_STRUCTURE, data, memory_file>>

\* sid = str(uuid.uuid4())[:8]; self.store[sid] = {...}; return sid
new_session(sid) ==
    SessionOp("new_session", sid, <<>>, sid, With(store, sid, NewSessionData))

\* get(sid, key, default): counts the access, then reads
get(sid, key, default) ==
    IF sid \notin DOMAIN store
    THEN SessionOp("get", sid, <<key>>, default, store)
    ELSE LET session == [store[sid] EXCEPT !.access_count = @ + 1]
         IN  SessionOp("get", sid, <<key>>,
                       IF key \in DOMAIN session THEN session[key] ELSE default,
                       With(store, sid, session))

\* as set, without the test for a reserved key
set_any_key(sid, key, value) ==
    LET session == IF sid \in DOMAIN store THEN store[sid] ELSE NewSessionData
        stored  == With(session, key, value)
        updated == [stored EXCEPT !.last_updated = Now, !.access_count = @ + 1]
    IN  SessionOp("set", sid, <<key, value>>, None, With(store, sid, updated))

\* set(sid, key, value)
set(sid, key, value) ==
    IF key \in RESERVED_KEYS
    THEN SessionOp("set", sid, <<key, value>>, None, store)
    ELSE LET session == IF sid \in DOMAIN store THEN store[sid] ELSE NewSessionData
             stored  == With(session, key, value)
             updated == [stored EXCEPT !.last_updated = Now, !.access_count = @ + 1]
         IN  SessionOp("set", sid, <<key, value>>, None, With(store, sid, updated))

\* delete(sid)
delete(sid) ==
    IF sid \in DOMAIN store
    THEN SessionOp("delete", sid, <<>>, TRUE, Without(store, sid))
    ELSE SessionOp("delete", sid, <<>>, FALSE, store)

\* delete_key(sid, key)
delete_key(sid, key) ==
    IF key \in RESERVED_KEYS
    THEN SessionOp("delete_key", sid, <<key>>, FALSE, store)
    ELSE IF sid \in DOMAIN store /\ key \in DOMAIN store[sid]
         THEN LET session == [Without(store[sid], key) EXCEPT !.last_updated = Now]
              IN  SessionOp("delete_key", sid, <<key>>, TRUE, With(store, sid, session))
         ELSE SessionOp("delete_key", sid, <<key>>, FALSE, store)

NextSessions ==
    \/ Tick
    \/ \E sid \in SessionIds : new_session(sid)
    \/ \E sid \in SessionIds, key \in SessionKeys : get(sid, key, None)
    \/ \E sid \in SessionIds, key \in SessionKeys, value \in SessionValues :
          set(sid, key, value)
    \/ \E sid \in SessionIds : delete(sid)
    \/ \E sid \in SessionIds, key \in SessionKeys : delete_key(sid, key)

SpecSessions == Init /\ [][NextSessions]_vars

(***************************************************************************)
(* retry_on_rate_limit (utils/rate_limiter.py).  A thread calls a function *)
(* wrapped with max_retries = n and the default backoff_factor and         *)
(* initial_wait; each attempt of the function returns, or raises one of a  *)
(* few errors.  An error message is the sequence of its words: `in` and    *)
(* re.search are taken word by word.  The thread's record keeps the        *)
(* wrapper's locals and the log of what happened in the call.              *)
(***************************************************************************)
MaxRetries == 2
backoff_factor == 2
initial_wait == 1

ErrorMessages ==
    { <<"HTTP", "429">>,
      <<"Quota", "Exceeded">>,
      <<"Rate", "limit", "hit", "Retry", "in", "5", "s">>,
      <<"Too", "Many", "Requests", "retry", "after", "0", "seconds">>,
      <<"limit", "rate">>,
      <<"connection", "timeout">> }

\* str.lower(), word by word
lower(words) ==
    [i \in DOMAIN words |->
        CASE words[i] = "HTTP" -> "http"
          [] words[i] = "Quota" -> "quota"
          [] words[i] = "Exceeded" -> "exceeded"
          [] words[i] = "Rate" -> "rate"
          [] words[i] = "Retry" -> "retry"
          [] words[i] = "Too" -> "too"
          [] words[i] = "Many" -> "many"
          [] words[i] = "Requests" -> "requests"
          [] OTHER -> words[i]]

\* phrase in words
Contains(words, phrase) ==
    \E i \in 1..(Len(words) - Len(phrase) + 1) :
        SubSeq(words, i, i + Len(phrase) - 1) = phrase

\* float(match.group(1)) of the words that spell a number
Numbers == [w \in {"0", "5"} |-> IF w = "0" THEN 0 ELSE 5]

\* the places where lead, a number and a word starting with s follow each other
PatternMatches(words, lead) ==
    {i \in 1..(Len(words) - Len(lead) - 1) :
        /\ SubSeq(words, i, i + Len(lead) - 1) = lead
        /\ words[i + Len(lead)] \in DOMAIN Numbers
        /\ words[i + Len(lead) + 1] \in {"s", "seconds", "second"}}

\* _extract_wait_time: the number of the first match of the first pattern
\* that matches, as <<number>>, or None, as <<>>
_extract_wait_time(error_message) ==
    LET error_lower == lower(error_message)
        leads == << <<"retry", "in">>, <<"retry", "after">>, <<"wait">> >>
        hits == {p \in DOMAIN leads : PatternMatches(error_lower, leads[p]) # {}}
    IN  IF hits = {}
        THEN <<>>
        ELSE LET p == CHOOSE q \in hits : \A r \in hits : q <= r
                 i == CHOOSE j \in PatternMatches(error_lower, leads[p]) :
                         \A k \in PatternMatches(error_lower, leads[p]) : j <= k
             IN  <<Numbers[error_lower[i + Len(leads[p])]]>>

is_rate_limit_error(e) ==
    LET error_str == lower(e)
    IN  \/ Contains(e, <<"429">>)
        \/ Contains(error_str, <<"quota", "exceeded">>)
        \/ Contains(error_str, <<"rate", "limit">>)
        \/ Contains(error_str, <<"too", "many", "requests">>)

\* wrapper(*args, **kwargs): retries = 0; wait_time = initial_wait
wrapper_call(t, max_retries) ==
    /\ threads[t] = Idle
    /\ threads' = [threads EXCEPT ![t] =
          [pc |-> "attempt", op |-> "wrapper", max_retries |-> max_retries,
           retries |-> 0, wait_time |-> initial_wait, log |-> <<>>, ret |-> None]]
    /\ UNCHANGED <<others, jobs, jobs_file, clock, save_failures, last, _lock>>

\* while retries <= max_retries: result = func(*args, **kwargs); return result
attempt_returns(t) ==
    /\ At(t, "attempt")
    /\ threads' = [threads EXCEPT ![t] =
          IF @.retries <= @.max_retries
          THEN [@ EXCEPT !.pc = "returned", !.ret = "result",
                         !.log = Append(@, [event |-> "returned"])]
          ELSE [@ EXCEPT !.pc = "returned", !.ret = None]]
    /\ UNCHANGED <<others, jobs, jobs_file, clock, save_failures, last, _lock>>

\* the wrapper's locals and place after func raised e
AfterRaise(w, e, give_up) ==
    IF ~is_rate_limit_error(e)
    THEN [w EXCEPT !.pc = "raised", !.ret = e,
                   !.log = Append(@, [event |-> "raised", error |-> e])]
    ELSE IF give_up
         THEN [w EXCEPT !.pc = "raised", !.ret = e, !.retries = @ + 1,
                        !.log = Append(@, [event |-> "raised", error |-> e])]
         ELSE LET suggested_wait == _extract_wait_time(e)
              IN  [w EXCEPT !.pc = "sleep", !.retries = @ + 1,
                            !.wait_time = IF suggested_wait # <<>> /\ suggested_wait # <<0>>
                                          THEN suggested_wait[1] + 1 ELSE @,
                            !.log = Append(@, [event |-> "raised", error |-> e])]

\* as attempt_raises, giving up one rate-limit failure early
attempt_raises_gives_up_early(t, e) ==
    /\ At(t, "attempt")
    /\ threads[t].retries <= threads[t].max_retries
    /\ threads' = [threads EXCEPT ![t] =
          AfterRaise(@, e, @.retries + 1 >= @.max_retries)]
    /\ UNCHANGED <<others, jobs, jobs_file, clock, save_failures, last, _lock>>

\* func raises e: except Exception as e ... raise, or go on to the sleep
attempt_raises(t, e) ==
    /\ At(t, "attempt")
    /\ threads[t].retries <= threads[t].max_retries
    /\ threads' = [threads EXCEPT ![t] =
          AfterRaise(@, e, @.retries + 1 > @.max_retries)]
    /\ UNCHANGED <<others, jobs, jobs_file, clock, save_failures, last, _lock>>

\* time.sleep(wait_time); wait_time *= backoff_factor
sleep(t) ==
    /\ At(t, "sleep")
    /\ threads' = [threads EXCEPT ![t] =
          [@ EXCEPT !.pc = "attempt",
                    !.wait_time = @ * backoff_factor,
                    !.log = Append(@, [event |-> "sleep", seconds |-> threads[t].wait_time])]]
    /\ UNCHANGED <<others, jobs, jobs_file, clock, save_failures, last, _lock>>

Callers == {"t1"}

NextRetry ==
    \/ \E t \in Callers, max_retries \in 0..MaxRetries : wrapper_call(t, max_retries)
    \/ \E t \in Callers : attempt_returns(t)
    \/ \E t \in Callers, e \in ErrorMessages : attempt_raises(t, e)
    \/ \E t \in Callers : sleep(t)

SpecRetry == Init /\ [][NextRetry]_vars

(***************************************************************************)
(* Vocabulary of the properties.                                           *)
(***************************************************************************)
\* the step is a call of method op (Tick alone moves the clock)
OpStep(op) == last'.op = op /\ clock' = clock

IsTerminal(status) == status \in {COMPLETED, FAILED, CANCELLED}
IsActive(status) == status \in {QUEUED, RUNNING, PAUSED}

\* the eight edges of the transition table
TableEdges ==
    { <<QUEUED, RUNNING>>, <<QUEUED, CANCELLED>>,
      <<RUNNING, PAUSED>>, <<RUNNING, COMPLETED>>,
      <<RUNNING, FAILED>>, <<RUNNING, CANCELLED>>,
      <<PAUSED, RUNNING>>, <<PAUSED, CANCELLED>> }

JobFields ==
    {"job_id", "query", "status", "created_at", "updated_at", "progress",
     "current_step", "results", "error", "config"}

\* record new differs from record old at most in the fields named
SameExcept(old, new, fields) == \A f \in JobFields \ fields : new[f] = old[f]

(***************************************************************************)
(* C1.  Every change of a job's status follows an edge of the transition   *)
(* table: Queued->Running|Cancelled, Running->Paused|Completed|Failed|     *)
(* Cancelled, Paused->Running|Cancelled; nothing leaves Completed, Failed  *)
(* or Cancelled.  Stated for the record of one job: a step of              *)
(* start_deep_research makes a new record and is not a status change.      *)
(* complete_job and fail_job do not consult the table, so this fails.      *)
(***************************************************************************)
C1_StatusFollowsTransitionTable ==
    [][\A id \in JobIds :
          ( /\ id \in DOMAIN jobs
            /\ id \in DOMAIN jobs'
            /\ last'.op # "start_deep_research"
            /\ jobs'[id].status # jobs[id].status )
          => <<jobs[id].status, jobs'[id].status>> \in TableEdges]_vars

(***************************************************************************)
(* C2.  Once a job is Completed, Failed or Cancelled, no operation other   *)
(* than delete_job changes any field of its record.  (A step of            *)
(* start_deep_research makes a new record and is left out.)                *)
(* update_progress, complete_job and fail_job write to a terminal record,  *)
(* so this fails.                                                          *)
(***************************************************************************)
C2_TerminalRecordImmutable ==
    [][\A id \in JobIds :
          ( /\ id \in DOMAIN jobs
            /\ IsTerminal(jobs[id].status)
            /\ last'.op \notin {"delete_job", "start_deep_research"} )
          => (id \in DOMAIN jobs' /\ jobs'[id] = jobs[id])]_vars

(***************************************************************************)
(* C3.  _validate_transition(from, to) is true exactly for the eight       *)
(* edges of the transition table and false for the other 28 pairs of       *)
(* statuses: every direct call returns whether its pair is an edge.        *)
(***************************************************************************)
C3_ValidateTransitionTable ==
    last.op = "_validate_transition" =>
        /\ last.args \in JobStatus \X JobStatus
        /\ last.ret = (last.args \in TableEdges)

C3_Witness ==
    /\ last.op = "_validate_transition"
    /\ last.args = <<RUNNING, COMPLETED>>
    /\ last.ret = TRUE

(***************************************************************************)
(* C4.  In every reachable state, for every record: results is populated   *)
(* only if the status is Completed, error only if it is Failed, never      *)
(* both, and neither while the status is Queued, Running or Paused.        *)
(* Fails: fail_job and complete_job accept a terminal job (see C1).        *)
(***************************************************************************)
C4_ResultsAndErrorMatchStatus ==
    \A id \in DOMAIN jobs :
        /\ jobs[id].results # None => jobs[id].status = COMPLETED
        /\ jobs[id].error # None => jobs[id].status = FAILED
        /\ ~(jobs[id].results # None /\ jobs[id].error # None)
        /\ IsActive(jobs[id].status) =>
              (jobs[id].results = None /\ jobs[id].error = None)

(***************************************************************************)
(* C5.  resume_job(id) returns true, and sets the status to Running,       *)
(* exactly when the job exists with status Queued or Paused; otherwise it  *)
(* returns false and leaves the table and the file unchanged.  The first   *)
(* resume_job after the job's creation succeeds and a second one right     *)
(* after a successful one fails.                                           *)
(***************************************************************************)
C5_ResumeJobContract ==
    [][OpStep("resume_job") =>
          LET id == last'.id
              known == id \in DOMAIN jobs
          IN  /\ last'.ret = (known /\ jobs[id].status \in {QUEUED, PAUSED})
              /\ last'.ret =>
                    /\ id \in DOMAIN jobs'
                    /\ jobs'[id].status = RUNNING
              /\ ~last'.ret => (jobs' = jobs /\ jobs_file' = jobs_file)
              /\ (last.op = "start_deep_research" /\ last.ret = id) => last'.ret
              /\ (last.op = "resume_job" /\ last.id = id /\ last.ret) => ~last'.ret
      ]_vars

C5_Witness ==
    /\ last.op = "resume_job"
    /\ last.ret = TRUE
    /\ last.id \in DOMAIN jobs
    /\ jobs[last.id].status = RUNNING
    /\ jobs[last.id].progress = 40

(***************************************************************************)
(* C6.  complete_job(id, results) returns true exactly when the job exists *)
(* with a non-terminal status; it then sets status Completed, progress     *)
(* 100, stores results and leaves error empty.  On a Completed, Failed or  *)
(* Cancelled job it returns false and changes nothing.                     *)
(* Fails: complete_job only checks that the job exists.                    *)
(***************************************************************************)
C6_CompleteJobContract ==
    [][OpStep("complete_job") =>
          LET id == last'.id
              known == id \in DOMAIN jobs
          IN  /\ last'.ret = (known /\ IsActive(jobs[id].status))
              /\ last'.ret =>
                    /\ id \in DOMAIN jobs'
                    /\ jobs'[id].status = COMPLETED
                    /\ jobs'[id].progress = 100
                    /\ jobs'[id].results = last'.args[1]
                    /\ jobs'[id].error = None
              /\ (known /\ IsTerminal(jobs[id].status)) =>
                    (~last'.ret /\ jobs' = jobs)
      ]_vars

(***************************************************************************)
(* C7.  fail_job(id, error) returns true exactly when the job exists with  *)
(* a non-terminal status; it then sets status Failed and error, leaving    *)
(* progress, current_step and results as they were, and a resume_job after *)
(* it returns false.  On a Completed, Failed or Cancelled job it returns   *)
(* false and overwrites neither status nor error.                          *)
(* Fails: fail_job only checks that the job exists.                        *)
(***************************************************************************)
C7_FailJobContract ==
    [][ /\ OpStep("fail_job") =>
             LET id == last'.id
                 known == id \in DOMAIN jobs
             IN  /\ last'.ret = (known /\ IsActive(jobs[id].status))
                 /\ last'.ret =>
                       /\ id \in DOMAIN jobs'
                       /\ jobs'[id].status = FAILED
                       /\ jobs'[id].error = last'.args[1]
                       /\ SameExcept(jobs[id], jobs'[id],
                                     {"status", "error", "updated_at"})
                 /\ (known /\ IsTerminal(jobs[id].status)) =>
                       /\ ~last'.ret
                       /\ jobs'[id].status = jobs[id].status
                       /\ jobs'[id].error = jobs[id].error
        /\ ( /\ OpStep("resume_job")
             /\ last'.id \in DOMAIN jobs
             /\ jobs[last'.id].status = FAILED ) => ~last'.ret
      ]_vars

(***************************************************************************)
(* C8.  cancel_job(id) returns true, and sets the status to Cancelled,     *)
(* exactly when the job exists with status Queued, Running or Paused, and  *)
(* changes no field but status and updated_at; otherwise it returns false  *)
(* and changes nothing.  A cancel_job right after another on the same job  *)
(* returns false, and so does every later one on that record: a terminal   *)
(* record stays terminal until it is deleted or its id is given to a new   *)
(* record.                                                                 *)
(***************************************************************************)
C8_CancelJobContract ==
    [][ /\ OpStep("cancel_job") =>
             LET id == last'.id
                 known == id \in DOMAIN jobs
             IN  /\ last'.ret = (known /\ IsActive(jobs[id].status))
                 /\ last'.ret =>
                       /\ DOMAIN jobs' = DOMAIN jobs
                       /\ jobs'[id].status = CANCELLED
                       /\ SameExcept(jobs[id], jobs'[id], {"status", "updated_at"})
                 /\ ~last'.ret => (jobs' = jobs /\ jobs_file' = jobs_file)
                 /\ (last.op = "cancel_job" /\ last.id = id) => ~last'.ret
        /\ \A id \in DOMAIN jobs :
             ( /\ IsTerminal(jobs[id].status)
               /\ last'.op \notin {"delete_job", "start_deep_research"} )
             => (id \in DOMAIN jobs' /\ IsTerminal(jobs'[id].status))
      ]_vars

C8_Witness ==
    /\ last.op = "cancel_job"
    /\ last.ret = TRUE
    /\ last.id \in DOMAIN jobs
    /\ jobs[last.id].status = CANCELLED
    /\ jobs[last.id].progress = 40
    /\ jobs[last.id].current_step = "research"

(***************************************************************************)
(* C9.  pause_job(id) returns true, and sets the status to Paused, exactly *)
(* when the job exists with status Running; otherwise it returns false and *)
(* leaves the table and the file unchanged.  A successful pause keeps      *)
(* every field but status and updated_at, and the resume_job after it      *)
(* succeeds and gives a Running job with the same progress and             *)
(* current_step.                                                           *)
(***************************************************************************)
C9_PauseJobContract ==
    [][ /\ OpStep("pause_job") =>
             LET id == last'.id
                 known == id \in DOMAIN jobs
             IN  /\ last'.ret = (known /\ jobs[id].status = RUNNING)
                 /\ last'.ret =>
                       /\ DOMAIN jobs' = DOMAIN jobs
                       /\ jobs'[id].status = PAUSED
                       /\ SameExcept(jobs[id], jobs'[id], {"status", "updated_at"})
                 /\ ~last'.ret => (jobs' = jobs /\ jobs_file' = jobs_file)
        /\ ( /\ OpStep("resume_job")
             /\ last.op = "pause_job"
             /\ last.ret
             /\ last'.id = last.id ) =>
             LET id == last.id
             IN  /\ last'.ret
                 /\ jobs'[id].status = RUNNING
                 /\ jobs'[id].progress = jobs[id].progress
                 /\ jobs'[id].current_step = jobs[id].current_step
      ]_vars

C9_Witness ==
    /\ last.op = "pause_job"
    /\ last.ret = TRUE
    /\ last.id \in DOMAIN jobs
    /\ jobs[last.id].status = PAUSED
    /\ jobs[last.id].progress = 40
    /\ jobs[last.id].current_step = "research"

(***************************************************************************)
(* C10.  start_deep_research(query, config) puts into the table, under the *)
(* id it returns, a record with status Queued, progress 0, current_step,   *)
(* results and error empty, created_at equal to updated_at, the given      *)
(* query and the given config (an empty map when none is given), and       *)
(* writes the table to the file when the save succeeds; every record's     *)
(* job_id field is its key in the table.  (That the id is a fresh one is   *)
(* C11.)                                                                   *)
(***************************************************************************)
C10_StartDeepResearchContract ==
    /\ [](\A id \in DOMAIN jobs : jobs[id].job_id = id)
    /\ [][OpStep("start_deep_research") =>
             LET id == last'.ret
                 query == last'.args[1]
                 config == last'.args[2]
             IN  /\ DOMAIN jobs' = DOMAIN jobs \cup {id}
                 /\ jobs'[id] =
                       [job_id       |-> id,
                        query        |-> query,
                        status       |-> QUEUED,
                        created_at   |-> clock,
                        updated_at   |-> clock,
                        progress     |-> 0,
                        current_step |-> None,
                        results      |-> None,
                        error        |-> None,
                        config       |-> IF config = None THEN EmptyDict ELSE config]
                 /\ \A k \in DOMAIN jobs \ {id} : jobs'[k] = jobs[k]
                 /\ save_failures' = save_failures =>
                       jobs_file' = [kind |-> "table", table |-> jobs']
         ]_vars

C10_Witness ==
    /\ last.op = "start_deep_research"
    /\ last.args = <<"X", None>>
    /\ last.ret \in DOMAIN jobs
    /\ jobs[last.ret].status = QUEUED
    /\ jobs[last.ret].config = EmptyDict
    /\ jobs[last.ret].created_at = 1
    /\ jobs_file = [kind |-> "table", table |-> jobs]

(***************************************************************************)
(* C11.  The job_id returned by start_deep_research differs from every id  *)
(* in the table, the call never replaces or resets an existing record, and *)
(* the number of records grows by exactly one per call.                    *)
(***************************************************************************)
C11_FreshJobId ==
    [][OpStep("start_deep_research") =>
          /\ last'.ret \notin DOMAIN jobs
          /\ \A k \in DOMAIN jobs : jobs'[k] = jobs[k]
          /\ Cardinality(DOMAIN jobs') = Cardinality(DOMAIN jobs) + 1
      ]_vars

(***************************************************************************)
(* C12.  update_progress on a known job stores min(100, max(0, progress))  *)
(* and returns true; the progress of every record is an integer between 0  *)
(* and 100 in every state reached from the empty store.                    *)
(***************************************************************************)
C12_ProgressClamped ==
    /\ [](\A id \in DOMAIN jobs : jobs[id].progress \in 0..100)
    /\ [][(OpStep("update_progress") /\ last'.id \in DOMAIN jobs) =>
             LET id == last'.id
                 p == last'.args[1]
             IN  /\ last'.ret = TRUE
                 /\ jobs'[id].progress =
                       IF p < 0 THEN 0 ELSE IF p > 100 THEN 100 ELSE p
         ]_vars

C12_Witness ==
    /\ last.op = "update_progress"
    /\ last.ret = TRUE
    /\ last.args[1] = 150
    /\ jobs[last.id].progress = 100

(***************************************************************************)
(* C13.  update_progress changes only progress, updated_at and, when a     *)
(* non-empty step is given, current_step: status, results, error, query    *)
(* and config stay, and without a step current_step stays too.  After      *)
(* start, resume and update_progress(id, 50, "research"), check_status     *)
(* reports Running, 50 and "research": an update after a resume leaves the *)
(* job Running, and check_status returns the record as it stands.          *)
(***************************************************************************)
C13_UpdateProgressFrame ==
    /\ [][(OpStep("update_progress") /\ last'.id \in DOMAIN jobs) =>
             LET id == last'.id
                 step == last'.args[2]
             IN  /\ id \in DOMAIN jobs'
                 /\ SameExcept(jobs[id], jobs'[id],
                               {"progress", "updated_at", "current_step"})
                 /\ jobs'[id].current_step =
                       IF step = None \/ step = "" THEN jobs[id].current_step ELSE step
                 /\ (last.op = "resume_job" /\ last.id = id /\ last.ret) =>
                       jobs'[id].status = RUNNING
         ]_vars
    /\ [][(OpStep("check_status") /\ last'.id \in DOMAIN jobs) =>
             /\ last'.ret = jobs[last'.id]
             /\ (last.op = "update_progress" /\ last.id = last'.id /\ last.ret
                    /\ last.args = <<50, "research">>) =>
                   (last'.ret.progress = 50 /\ last'.ret.current_step = "research")
         ]_vars

C13_Witness ==
    /\ last.op = "check_status"
    /\ last.ret # NoJob
    /\ last.ret.status = RUNNING
    /\ last.ret.progress = 50
    /\ last.ret.current_step = "research"
    /\ last.ret.results = None
    /\ last.ret.error = None

(***************************************************************************)
(* C14.  Every operation called with a job_id that is not in the table     *)
(* answers not-found (false, or no record for the two reads), creates no   *)
(* record, and leaves the table and the file as they were.                 *)
(***************************************************************************)
ByIdOps ==
    {"check_status", "get_job", "update_progress", "resume_job", "pause_job",
     "complete_job", "fail_job", "cancel_job", "delete_job"}

C14_UnknownJobId ==
    [][(last'.op \in ByIdOps /\ clock' = clock /\ last'.id \notin DOMAIN jobs) =>
          /\ last'.ret = IF last'.op \in {"check_status", "get_job"}
                         THEN NoJob ELSE FALSE
          /\ jobs' = jobs
          /\ jobs_file' = jobs_file
      ]_vars

C14_Witness ==
    /\ last.op = "complete_job"
    /\ last.ret = FALSE
    /\ DOMAIN jobs = {"a1b2c3d4"}
    /\ last.id = "e5f6a7b8"
    /\ jobs_file = [kind |-> "table", table |-> jobs]

(***************************************************************************)
(* C18.  After every mutating operation whose save succeeds the file holds *)
(* exactly the table in memory.  The save writes the whole table, so the   *)
(* first successful save after a failed one brings the file level again,   *)
(* mutations whose own save failed included.                               *)
(***************************************************************************)
MutatingOps ==
    {"start_deep_research", "update_progress", "resume_job", "pause_job",
     "complete_job", "fail_job", "cancel_job", "delete_job"}

C18_FileEqualsTableAfterSave ==
    [][(/\ last'.op \in MutatingOps
        /\ clock' = clock
        /\ (last'.op = "start_deep_research" \/ last'.ret = TRUE)
        /\ save_failures' = save_failures) =>
          jobs_file' = [kind |-> "table", table |-> jobs']
      ]_vars

\* a mutation was lost to a failed save and the file is level again
C18_Witness ==
    /\ save_failures = 1
    /\ last.op = "update_progress"
    /\ last.ret = TRUE
    /\ jobs[last.id].status = COMPLETED
    /\ jobs_file = [kind |-> "table", table |-> jobs]

(***************************************************************************)
(* C15.  No value handed to or returned from the registry aliases its      *)
(* state: whatever a caller writes into a record it got from check_status, *)
(* get_job or list_jobs, the nested config and results included, or into   *)
(* the config or results object it passed in, the table stays as the       *)
(* registry last set it.                                                   *)
(***************************************************************************)
C15_NoAliasing ==
    [][last'.op = "caller_modifies" => (jobs' = jobs /\ jobs_file' = jobs_file)]_vars

(***************************************************************************)
(* C19.  Constructing a new registry over the file that holds the saved    *)
(* table yields that table field for field: the same ids and, for each     *)
(* job, the same status, progress, current_step, results, error, config    *)
(* and timestamps.  "The file holds the saved table" is: the file is the   *)
(* dump of the table in memory.                                            *)
(***************************************************************************)
C19_RestartRoundTrip ==
    [][(last'.op = "__init__" /\ IsDict(jobs) /\ jobs_file = json_dump(jobs)) =>
          jobs' = jobs
      ]_vars

(***************************************************************************)
(* C20.  Over a file that is missing or is anything but a well-formed      *)
(* serialized job table, construction gives a registry with an empty       *)
(* table, and no operation on it raises.                                   *)
(***************************************************************************)
C20_MalformedFileGivesEmptyTable ==
    /\ (last.op = "__init__" /\ jobs_file.kind # "table") => jobs = <<>>
    /\ last.op = "start_deep_research" => last.ret # Raised
    /\ last.op = "check_status" => last.ret # [raised |-> TRUE]

(***************************************************************************)
(* C16.  Threads call update_progress concurrently, each on its own job.   *)
(* Once every call has returned, each record holds the progress (clamped)  *)
(* and the current_step its thread wrote, in memory and, when no save      *)
(* failed, in the file: no update is lost, none lands on another job.      *)
(***************************************************************************)
AllReturned == \A t \in Threads : threads[t].pc = "idle"

\* the job of thread t in table holds what t's update_progress wrote
HoldsUpdateOf(t, table) ==
    /\ JobOf[t] \in DOMAIN table
    /\ table[JobOf[t]].progress =
          (IF threads[t].progress < 0 THEN 0
           ELSE IF threads[t].progress > 100 THEN 100 ELSE threads[t].progress)
    /\ threads[t].current_step \notin {None, ""} =>
          table[JobOf[t]].current_step = threads[t].current_step

C16_ConcurrentUpdatesKept ==
    (/\ AllReturned
     /\ \A t \in Threads : threads[t].op = "update_progress" /\ threads[t].ret = TRUE) =>
       /\ \A t \in Threads : HoldsUpdateOf(t, jobs)
       /\ save_failures = 0 =>
             /\ jobs_file.kind = "table"
             /\ \A t \in Threads : HoldsUpdateOf(t, jobs_file.table)

C16_Witness ==
    /\ AllReturned
    /\ \A t \in Threads : threads[t].op = "update_progress" /\ threads[t].ret = TRUE
    /\ \A t \in Threads : threads[t].calls = 1
    /\ threads["t1"].current_step = "research"
    /\ threads["t2"].current_step = None
    /\ jobs["a1b2c3d4"].current_step = "research"
    /\ jobs["e5f6a7b8"].current_step = None
    /\ save_failures = 0
    /\ jobs_file = json_dump(jobs)

(***************************************************************************)
(* C17.  An operation holds the registry lock from before its first read   *)
(* of the table until after its last write and its save: a thread inside   *)
(* an operation holds the lock, so no two threads are inside at once, and  *)
(* no check_status returns a record taken between the field writes of a    *)
(* complete_job (status Completed with the results not yet set).           *)
(***************************************************************************)
Inside(t) == threads[t].pc \notin {"idle", "acquire"}

C17_SingleLockHeldThroughout ==
    /\ \A t \in Threads : Inside(t) => _lock = t
    /\ \A t1, t2 \in Threads : (Inside(t1) /\ Inside(t2)) => t1 = t2
    /\ (\A t \in Threads : ~Inside(t)) => _lock = None
    /\ \A t \in Threads :
          (/\ threads[t].op = "check_status"
           /\ threads[t].pc \in {"release", "idle"}
           /\ threads[t].ret # NoJob
           /\ threads[t].ret.status = COMPLETED) =>
             threads[t].ret.results # None

\* one thread is between the field writes of complete_job, the other waits
C17_Witness ==
    /\ threads["t1"].pc = "set_results"
    /\ _lock = "t1"
    /\ jobs["a1b2c3d4"].status = COMPLETED
    /\ jobs["a1b2c3d4"].results = None
    /\ threads["t2"].pc = "acquire"
    /\ threads["t2"].op = "check_status"
    /\ threads["t2"].job_id = "a1b2c3d4"

(***************************************************************************)
(* C21.  When the save fails the operation that triggered it still returns *)
(* its normal result and keeps its mutation in memory (no rollback), and   *)
(* the next operation on the job works on the mutated record: a job whose  *)
(* start was never saved can be resumed.                                   *)
(***************************************************************************)
C21_SaveFailureKeepsMutation ==
    [][(last'.op \in MutatingOps /\ clock' = clock /\ save_failures' = save_failures + 1) =>
          LET op == last'.op
              id == IF op = "start_deep_research" THEN last'.ret ELSE last'.id
          IN  /\ op # "start_deep_research" => last'.ret = TRUE
              /\ op = "delete_job" => id \notin DOMAIN jobs'
              /\ op # "delete_job" =>
                    /\ id \in DOMAIN jobs'
                    /\ jobs'[id].updated_at = clock
                    /\ op = "start_deep_research" =>
                          jobs'[id].status = QUEUED /\ jobs'[id].query = last'.args[1]
                    /\ op = "update_progress" =>
                          jobs'[id].progress = Max(0, Min(100, last'.args[1]))
                    /\ op = "resume_job" => jobs'[id].status = RUNNING
                    /\ op = "pause_job" => jobs'[id].status = PAUSED
                    /\ op = "complete_job" =>
                          jobs'[id].status = COMPLETED /\ jobs'[id].results = last'.args[1]
                    /\ op = "fail_job" =>
                          jobs'[id].status = FAILED /\ jobs'[id].error = last'.args[1]
                    /\ op = "cancel_job" => jobs'[id].status = CANCELLED
      ]_vars
    /\ [][(/\ last.op = "start_deep_research"
           /\ jobs_file # json_dump(jobs)
           /\ OpStep("resume_job")
           /\ last'.id = last.ret) =>
             (last'.ret = TRUE /\ jobs'[last'.id].status = RUNNING)
         ]_vars

\* a completion that is in memory and not in the file
C21_Witness ==
    /\ last.op = "complete_job"
    /\ last.ret = TRUE
    /\ save_failures = 1
    /\ jobs[last.id].status = COMPLETED
    /\ jobs[last.id].results = "{summary}"
    /\ jobs_file.kind = "table"
    /\ jobs_file.table[last.id].status = RUNNING

(***************************************************************************)
(* C26.  get_statistics returns, for each of the six statuses, the number  *)
(* of records in that status, the six counts summing to total_jobs, and    *)
(* changes no record.  As claimed, success_rate is the ratio completed /   *)
(* (completed + failed), between 0 and 1, and 0 when nothing is finished.  *)
(***************************************************************************)
CountsAreRight(stats) ==
    /\ stats.queued_jobs = Cardinality({id \in DOMAIN jobs : jobs[id].status = QUEUED})
    /\ stats.running_jobs = Cardinality({id \in DOMAIN jobs : jobs[id].status = RUNNING})
    /\ stats.paused_jobs = Cardinality({id \in DOMAIN jobs : jobs[id].status = PAUSED})
    /\ stats.completed_jobs = Cardinality({id \in DOMAIN jobs : jobs[id].status = COMPLETED})
    /\ stats.failed_jobs = Cardinality({id \in DOMAIN jobs : jobs[id].status = FAILED})
    /\ stats.cancelled_jobs = Cardinality({id \in DOMAIN jobs : jobs[id].status = CANCELLED})
    /\ stats.total_jobs = Cardinality(DOMAIN jobs)
    /\ stats.total_jobs =
          stats.queued_jobs + stats.running_jobs + stats.paused_jobs
          + stats.completed_jobs + stats.failed_jobs + stats.cancelled_jobs

\* the quotient q is factor * completed / (completed + failed), or 0 without finished jobs
RateIs(q, factor, stats) ==
    LET finished == stats.completed_jobs + stats.failed_jobs
    IN  /\ q.den > 0
        /\ 0 <= q.num
        /\ q.num <= factor * q.den
        /\ IF finished = 0
           THEN q.num = 0
           ELSE q.num * finished = factor * stats.completed_jobs * q.den

C26_StatisticsRatio ==
    [][OpStep("get_statistics") =>
          /\ CountsAreRight(last'.ret)
          /\ RateIs(last'.ret.success_rate, 1, last'.ret)
          /\ jobs' = jobs /\ jobs_file' = jobs_file
      ]_vars

\* C26 as amended: success_rate is the percentage, between 0 and 100
C26_StatisticsPercentage ==
    [][OpStep("get_statistics") =>
          /\ CountsAreRight(last'.ret)
          /\ RateIs(last'.ret.success_rate, 100, last'.ret)
          /\ jobs' = jobs /\ jobs_file' = jobs_file
      ]_vars

C26_Witness ==
    /\ last.op = "get_statistics"
    /\ last.ret.total_jobs = 2
    /\ last.ret.completed_jobs = 1
    /\ last.ret.failed_jobs = 1
    /\ last.ret.success_rate = Quotient(100, 2)

(***************************************************************************)
(* C27.  An id stays in the table until delete_job is called with it: no   *)
(* other operation removes a record.  delete_job(id) returns true exactly  *)
(* when id is present, removes that record and no other whatever its       *)
(* status, and persists.  Afterwards an operation on that id reports not   *)
(* found and does not recreate the record.                                 *)
(***************************************************************************)
C27_RemovedOnlyByDelete ==
    /\ [][\A id \in DOMAIN jobs :
             id \notin DOMAIN jobs' =>
                (last'.op = "delete_job" /\ last'.id = id /\ last'.ret = TRUE)
         ]_vars
    /\ [][OpStep("delete_job") =>
             LET id == last'.id
             IN  /\ last'.ret = (id \in DOMAIN jobs)
                 /\ DOMAIN jobs' = DOMAIN jobs \ {id}
                 /\ \A k \in DOMAIN jobs' : jobs'[k] = jobs[k]
                 /\ (last'.ret /\ save_failures' = save_failures) =>
                       jobs_file' = [kind |-> "table", table |-> jobs']
                 /\ ~last'.ret => jobs_file' = jobs_file
         ]_vars
    /\ [][(/\ last'.op \in ByIdOps
           /\ clock' = clock
           /\ last'.id \notin DOMAIN jobs) =>
             (last'.ret = FALSE /\ last'.id \notin DOMAIN jobs')
         ]_vars

\* a running job was deleted and the runner's next report found nothing
C27_Witness ==
    /\ last.op = "update_progress"
    /\ last.ret = FALSE
    /\ last.id = "a1b2c3d4"
    /\ DOMAIN jobs = {"e5f6a7b8"}
    /\ jobs_file = [kind |-> "table", table |-> jobs]

(***************************************************************************)
(* C28.  An operation that targets job A, whether it succeeds or fails,    *)
(* leaves the record of every other job B as it was and never changes A's  *)
(* own job_id, query, config or created_at.                                *)
(***************************************************************************)
C28_OtherJobsUntouched ==
    [][(last'.op \in ByIdOps /\ clock' = clock) =>
          LET A == last'.id
          IN  /\ \A B \in DOMAIN jobs \ {A} :
                    B \in DOMAIN jobs' /\ jobs'[B] = jobs[B]
              /\ DOMAIN jobs' \subseteq DOMAIN jobs
              /\ (A \in DOMAIN jobs /\ A \in DOMAIN jobs') =>
                    /\ jobs'[A].job_id = jobs[A].job_id
                    /\ jobs'[A].query = jobs[A].query
                    /\ jobs'[A].config = jobs[A].config
                    /\ jobs'[A].created_at = jobs[A].created_at
      ]_vars

\* job A failed while job B was running at 50
C28_Witness ==
    /\ last.op = "fail_job"
    /\ last.ret = TRUE
    /\ last.id = "a1b2c3d4"
    /\ jobs["a1b2c3d4"].status = FAILED
    /\ "e5f6a7b8" \in DOMAIN jobs
    /\ jobs["e5f6a7b8"].status = RUNNING
    /\ jobs["e5f6a7b8"].progress = 50
    /\ jobs["e5f6a7b8"].error = None

(***************************************************************************)
(* C29.  With a clock that never goes back: created_at <= updated_at for   *)
(* every job in every state; an operation that changes a field of a record *)
(* sets its updated_at to the time of the operation; an operation that     *)
(* returns false leaves updated_at alone; the updated_at of a job never    *)
(* decreases from one operation to the next.                               *)
(***************************************************************************)
C29_Timestamps ==
    /\ [](\A id \in DOMAIN jobs : jobs[id].created_at <= jobs[id].updated_at)
    /\ [][\A id \in DOMAIN jobs \cap DOMAIN jobs' :
             /\ jobs'[id].updated_at >= jobs[id].updated_at
             /\ jobs'[id] # jobs[id] => jobs'[id].updated_at = clock
             /\ (last'.op \in ByIdOps /\ clock' = clock /\ last'.ret = FALSE) =>
                   jobs'[id].updated_at = jobs[id].updated_at
         ]_vars

\* a job created at 0 and cancelled at 1
C29_Witness ==
    /\ last.op = "cancel_job"
    /\ last.ret = TRUE
    /\ jobs[last.id].created_at = 0
    /\ jobs[last.id].updated_at = 1
    /\ clock = 1

(***************************************************************************)
(* C30.  A function wrapped with max_retries = n is invoked at most n + 1  *)
(* times per call of the wrapper; it is invoked again only after an        *)
(* attempt raised a rate-limit error and only after a wait; any other      *)
(* error is re-raised at once, with no wait and no further attempt; after  *)
(* n + 1 rate-limit failures the last error is re-raised; the wrapper      *)
(* returns the result of the first successful attempt and never returns    *)
(* after a failed one.                                                     *)
(***************************************************************************)
RateLimitMessages ==
    { <<"HTTP", "429">>,
      <<"Quota", "Exceeded">>,
      <<"Rate", "limit", "hit", "Retry", "in", "5", "s">>,
      <<"Too", "Many", "Requests", "retry", "after", "0", "seconds">> }

\* the call of the wrapper recorded in w keeps to the retry contract
RetryContract(w) ==
    LET log == w.log
        n == w.max_retries
        Attempts == {i \in DOMAIN log : log[i].event \in {"returned", "raised"}}
        Limited == {i \in Attempts :
                       log[i].event = "raised" /\ log[i].error \in RateLimitMessages}
    IN  /\ Cardinality(Attempts) <= n + 1
        /\ \A i \in Attempts :
              i > 1 => /\ log[i - 1].event = "sleep"
                       /\ log[i - 1].seconds > 0
                       /\ i - 2 \in Limited
        /\ \A i \in DOMAIN log : log[i].event = "sleep" => i - 1 \in Limited
        /\ \A i \in Attempts \ Limited : i = Len(log) /\ w.pc \in {"returned", "raised"}
        /\ Cardinality(Limited) = n + 1 => w.pc = "raised"
        /\ w.pc = "raised" =>
              /\ log # <<>>
              /\ log[Len(log)].event = "raised"
              /\ w.ret = log[Len(log)].error
              /\ Len(log) \in Limited => Cardinality(Limited) = n + 1
        /\ w.pc = "returned" =>
              /\ log # <<>>
              /\ log[Len(log)].event = "returned"
              /\ w.ret = "result"

C30_RetryOnRateLimit ==
    \A t \in Callers : threads[t].op = "wrapper" => RetryContract(threads[t])

\* two rate-limit failures, waits of 6 and 12 seconds, then the result
C30_Witness ==
    /\ threads["t1"].op = "wrapper"
    /\ threads["t1"].pc = "returned"
    /\ threads["t1"].max_retries = 2
    /\ Len(threads["t1"].log) = 5
    /\ threads["t1"].log[2] = [event |-> "sleep", seconds |-> 6]
    /\ threads["t1"].log[4] = [event |-> "sleep", seconds |-> 12]


\* the events of a run in which every agent returns
FixedOrder ==
    <<[event |-> "update_progress", progress |-> 20],
      [event |-> "agent_start", stage |-> 1], [event |-> "agent_return", stage |-> 1],
      [event |-> "update_progress", progress |-> 40],
      [event |-> "agent_start", stage |-> 2], [event |-> "agent_return", stage |-> 2],
      [event |-> "update_progress", progress |-> 60],
      [event |-> "agent_start", stage |-> 3], [event |-> "agent_return", stage |-> 3],
      [event |-> "update_progress", progress |-> 80],
      [event |-> "agent_start", stage |-> 4], [event |-> "agent_return", stage |-> 4],
      [event |-> "update_progress", progress |-> 100],
      [event |-> "agent_start", stage |-> 5], [event |-> "agent_return", stage |-> 5],
      [event |-> "complete_job"]>>

\* C22: the events of a run of simulate_deep_research, up to the raise of an
\* agent if there is one, are a prefix of update_progress(20), agent 1,
\* update_progress(40), agent 2, update_progress(60), agent 3,
\* update_progress(80), agent 4, update_progress(100), agent 5, complete_job;
\* and while the agent of stage k runs, the report of stage k has returned and
\* the job carries its progress 20k and its step.
C22_FixedOrder ==
    \A t \in Runners :
        LET w == threads[t]
        IN  /\ \A i \in 1..Len(w.log) :
                  w.log[i].event \notin {"agent_raise", "fail_job"}
                      => i <= Len(FixedOrder) /\ w.log[i] = FixedOrder[i]
            /\ w.at = "in_agent" =>
                  /\ w.pc = "idle"
                  /\ jobs[RunnerJob].progress = StageProgress[w.stage]
                  /\ jobs[RunnerJob].current_step = StageStep[w.stage]

C22_Witness ==
    \E t \in Runners : threads[t].at = "done" /\ threads[t].log = FixedOrder


\* the places of the log where an agent raised
Raises(log) == {i \in 1..Len(log) : log[i].event = "agent_raise"}

\* C23: once an agent of simulate_deep_research has raised, the runner does
\* nothing more than call fail_job once: no later stage is reported or
\* started, the stage is not run again, complete_job is not called; the call
\* carries the error's text, the run returns None, and the job's results are
\* still empty.
C23_StageFailure ==
    \A t \in Runners :
        LET w == threads[t]
        IN  \A i \in Raises(w.log) :
               /\ Len(w.log) <= i + 1
               /\ Len(w.log) = i + 1 => w.log[i + 1].event = "fail_job"
               /\ w.op # "complete_job"
               /\ w.op = "fail_job" => w.error \in ErrorInputs
               /\ jobs[RunnerJob].results = None
               /\ w.at = "done" =>
                     /\ Len(w.log) = i + 1
                     /\ w.value = None
                     /\ jobs[RunnerJob].error = w.error

C23_Witness ==
    \E t \in Runners :
        /\ threads[t].at = "done"
        /\ Raises(threads[t].log) # {}
        /\ jobs[RunnerJob].status = FAILED


\* C24: a run of simulate_deep_research in which all five agents returned
\* has called complete_job once, with the aggregated results, and fail_job
\* never, and returns those results; if no other thread called the manager,
\* the job ends Completed with progress 100, those results and no error.
\* Every finished run leaves the job in a terminal status.
C24_Success ==
    \A t \in Runners :
        LET w == threads[t]
        IN  w.at = "done" =>
               /\ jobs[RunnerJob].status \in {COMPLETED, FAILED, CANCELLED}
               /\ Raises(w.log) = {} =>
                     /\ w.log = FixedOrder
                     /\ w.value = AggregatedResults
                     /\ (\A u \in Users : threads[u].calls = 0) =>
                           /\ jobs[RunnerJob].status = COMPLETED
                           /\ jobs[RunnerJob].progress = 100
                           /\ jobs[RunnerJob].results = AggregatedResults
                           /\ jobs[RunnerJob].error = None

C24_Witness ==
    /\ \E t \in Runners : threads[t].at = "done" /\ Raises(threads[t].log) = {}
    /\ \A u \in Users : threads[u].calls = 0
    /\ jobs[RunnerJob].status = COMPLETED


\* C25: once cancel_job has made the job Cancelled during a run of
\* simulate_deep_research, no step of the runner's later update_progress,
\* complete_job or fail_job calls changes its status, progress, results or
\* error.
C25_CancelledDuringRun ==
    [][jobs[RunnerJob].status = CANCELLED =>
          /\ jobs'[RunnerJob].status = CANCELLED
          /\ jobs'[RunnerJob].progress = jobs[RunnerJob].progress
          /\ jobs'[RunnerJob].results = jobs[RunnerJob].results
          /\ jobs'[RunnerJob].error = jobs[RunnerJob].error]_vars


\* the threads inside the limiter's with block
InLimiter == {t \in Threads : threads[t].pc \notin {"idle", "acquire"}}

C32_HistoryBounded ==
    \A m \in DOMAIN data : Len(get_query_history(m, 0)) <= HISTORY_LIMIT


\* a step that is the call op of instance m
MemoryStep(op, m) ==
    /\ threads'[Caller].calls # threads[Caller].calls
    /\ last'.op = op
    /\ last'.id = m

\* C33: after clear_all of an instance, and after the construction of an
\* instance on a missing file, get_all_preferences gives the empty map and
\* get_query_history the empty list.
C33_ClearAllEmpties ==
    [][\A m \in Instances :
          \/ MemoryStep("clear_all", m)
          \/ /\ MemoryStep("__init__", m)
             /\ memory_file[data'[m].file_path].kind = "missing"
          => /\ get_all_preferences(m)' = <<>>
             /\ get_query_history(m, 10)' = <<>>]_vars


\* C34: an instance constructed for the first time on the file of an
\* earlier instance gives the preferences and the query history that the
\* earlier instance gives.
C34_PersistenceRoundTrip ==
    [][\A m \in Instances, earlier \in DOMAIN data :
          /\ m \notin DOMAIN data
          /\ MemoryStep("__init__", m)
          /\ data'[m].file_path = data[earlier].file_path
          => /\ get_all_preferences(m)' = get_all_preferences(earlier)
             /\ get_query_history(m, 0)' = get_query_history(earlier, 0)]_vars


\* C40: whatever happens during a save, no storage file is left empty or
\* partly written: each holds the complete data of a save.
C40_SaveAtomic ==
    \A path \in Paths : memory_file[path].kind # "corrupt"


\* C36: a thread never asks for the registry's lock while holding it, and
\* holds it no longer once its call has returned, whether the call ended by
\* an early return, an exception or its last statement; and under fair
\* scheduling every call that a thread has begun returns.
C36_NoDeadlock ==
    /\ [](\A t \in Threads : threads[t].pc \in {"idle", "acquire"} => _lock # t)
    /\ \A t \in Threads : (threads[t].pc # "idle") ~> (threads[t].pc = "idle")

C36_Witness ==
    \E t \in Threads :
        /\ threads[t].pc = "acquire"
        /\ _lock \in Threads \ {t}
        /\ \E u \in Threads \ {t} : threads[u].op = "cancel_job" /\ threads[u].pc = "release"
        /\ jobs[RunnerJob].status \notin JobStatus


\* C37: while an agent of simulate_deep_research is executing, the runner
\* has no call into the manager under way and does not hold the registry's
\* lock; and every call another thread has begun (check_status on any job,
\* the progress reports of another run) returns under fair scheduling of the
\* manager's steps alone, whether or not the agent ever returns.
C37_LockFreeDuringStage ==
    /\ [](\A t \in Runners :
             threads[t].at = "in_agent" => threads[t].pc = "idle" /\ _lock # t)
    /\ \A u \in Users : (threads[u].pc # "idle") ~> (threads[u].pc = "idle")

C37_Witness ==
    \E t \in Runners, u \in Users :
        /\ threads[t].at = "in_agent"
        /\ threads[u].op = "check_status"
        /\ threads[u].pc = "release"
        /\ threads[u].ret # NoJob


\* C38: during a run of simulate_deep_research that is the only writer of
\* the job's progress, the progress is one of 0, 20, 40, 60, 80, 100 and
\* every step leaves it or raises it to the next of these values, so it
\* never decreases; complete_job does not lower it, and once a stage has
\* failed the progress stays at that stage's value through fail_job.
C38_ProgressMonotonic ==
    /\ [](jobs[RunnerJob].progress \in {0, 20, 40, 60, 80, 100})
    /\ [][\/ jobs'[RunnerJob].progress = jobs[RunnerJob].progress
          \/ jobs'[RunnerJob].progress = jobs[RunnerJob].progress + 20]_vars
    /\ [](\A t \in Runners :
             LET w == threads[t]
             IN  /\ w.op = "complete_job" /\ w.pc = "release"
                       => jobs[RunnerJob].progress = 100
                 /\ \A i \in Raises(w.log) :
                       jobs[RunnerJob].progress = StageProgress[w.log[i].stage])

C38_Witness ==
    \E t \in Runners :
        /\ threads[t].at = "done"
        /\ Raises(threads[t].log) # {}
        /\ jobs[RunnerJob].status = FAILED
        /\ jobs[RunnerJob].progress = 60


\* C39: when complete_job returns True to simulate_deep_research the job's
\* record exists, is Completed and holds the runner's results; and a run
\* that has returned results (not None) is one whose complete_job call
\* returned True, so no success is reported for a job deleted during the run.
C39_ResultOnlyIfCompleted ==
    \A t \in Runners :
        LET w == threads[t]
        IN  /\ w.op = "complete_job" /\ w.pc = "release" /\ w.ret =>
                  /\ RunnerJob \in DOMAIN jobs
                  /\ jobs[RunnerJob].status = COMPLETED
                  /\ jobs[RunnerJob].results = w.results
            /\ w.at = "done" /\ w.value # None => w.ret


\* a step that is a call of SessionMemory's method op
SessionStep(op) ==
    /\ threads'[Caller].calls # threads[Caller].calls
    /\ last'.op = op

\* C35: a call of set or delete_key on one session leaves every other
\* session as it was, present or absent, with all its keys; with a reserved
\* key the call leaves the whole store as it was.  set with another key
\* stores the value, and get returns the value stored in its session.
C35_SessionsIsolated ==
    [][/\ SessionStep("set") \/ SessionStep("delete_key") =>
             /\ \A sid2 \in SessionIds \ {last'.id} :
                   /\ sid2 \in DOMAIN store' <=> sid2 \in DOMAIN store
                   /\ sid2 \in DOMAIN store => store'[sid2] = store[sid2]
             /\ last'.args[1] \in RESERVED_KEYS => store' = store
       /\ SessionStep("set") /\ last'.args[1] \notin RESERVED_KEYS =>
             /\ last'.id \in DOMAIN store'
             /\ last'.args[1] \in DOMAIN store'[last'.id]
             /\ store'[last'.id][last'.args[1]] = last'.args[2]
       /\ SessionStep("get") /\ last'.id \in DOMAIN store
             /\ last'.args[1] \in DOMAIN store[last'.id] \ RESERVED_KEYS =>
                last'.ret = store[last'.id][last'.args[1]]]_vars

C35_Witness ==
    /\ last.op = "set"
    /\ last.id = "1f0e9d8c"
    /\ last.args = <<"user_name", "Alice">>
    /\ DOMAIN store = SessionIds
    /\ store["1f0e9d8c"].user_name = "Alice"
    /\ "user_name" \in DOMAIN store["7b6a5f4e"]
    /\ store["7b6a5f4e"].user_name = "Bob"
    /\ store["7b6a5f4e"].access_count = 2

=============================================================================
